---- MODULE Spec2Model ----
(***************************************************************************)
(* Section/task planner backend: the handlers of handlers/section.go and   *)
(* handlers/task.go (user-scoped revision) over the MySQL tables sections  *)
(* and tasks.  Every database.Exec / database.QueryRow is one atomic step  *)
(* on the shared tables; a request is a sequence of such steps.            *)
(***************************************************************************)
EXTENDS Integers, Sequences, FiniteSets, TLC

\* ---------------------------------------------------------------- bounds
MaxUser == 2
MaxSectionId == 2
MaxTaskId == 3
MaxProcs == 2
MaxConns == 2

Users == 1..MaxUser
SectionIds == 1..MaxSectionId
TaskIds == 1..MaxTaskId
Procs == 1..MaxProcs
Conns == 1..MaxConns

\* SQL NULL of the session variable @rank
Null == -1

\* ----------------------------------------------------------------- state
VARIABLES sections, tasks, nextSectionId, nextTaskId, rank, opened, req, tx,
          jwtSecret, now, http, users, password_resets, boot

vars == <<sections, tasks, nextSectionId, nextTaskId, rank, opened, req, tx,
          jwtSecret, now, http, users, password_resets, boot>>
db == <<sections, tasks, nextSectionId, nextTaskId>>
pool == <<rank, opened>>
planner == <<sections, tasks, nextSectionId, nextTaskId, rank, opened, req, tx>>
auth == <<jwtSecret, now, http, users, password_resets>>

\* ---------------------------------------------------------- request bodies
\* a JSON key the body does not carry
Absent == "<absent>"

\* the non-empty strings a body carries, and the one carried by the requests of
\* the specifications that only look at ranks
Titles == {"a", "b"}
SomeTitle == "a"

\* what a body can hold under a string key and (as JSON text) under the key is_completed
StringInputs == Titles \cup {"", Absent}
BoolInputs == {"true", "false", Absent}

\* ShouldBindJSON into a string field and into a bool field: a key the body
\* does not carry leaves the zero value of the field
BindString(v) == IF v = Absent THEN "" ELSE v
BindBool(v) == IF v = Absent THEN FALSE ELSE v = "true"

\* the keys of a body that holds title, content and is_completed as given
Keys(title, content, completed) ==
    {k \in {"title"} : title # Absent} \cup {k \in {"content"} : content # Absent}
        \cup {k \in {"is_completed"} : completed # Absent}

\* binding:"required" rejects the zero value
Required(v) == BindString(v) # ""

\* var input: the zero value of an input struct
NoBody == [title |-> "", content |-> "", is_completed |-> FALSE]

\* a request slot with no request in it (keys: the JSON keys the body of the
\* request carries; body: the input struct the handler bound them into;
\* result: the list a read handler has built)
IdleReq == [pc |-> "idle", op |-> "none", user |-> 0, id |-> 0, section |-> 0,
            newSort |-> 0, resp |-> "none", keys |-> {}, body |-> NoBody,
            result |-> <<>>]

\* no open transaction: the payload being applied, the position in it (section i,
\* task j), the rows the first read saw, and the uncommitted row updates
IdleTx == [payload |-> <<>>, i |-> 0, j |-> 0, snapped |-> FALSE,
           snapS |-> {}, snapT |-> {}, wS |-> {}, wT |-> {}]

InFlight(p) == req[p].pc \notin {"idle", "done"}
Settled == \A p \in Procs : ~InFlight(p)

\* requests of kind o that have not yet reached their INSERT (the AUTO_INCREMENT
\* ids they will take are reserved so that the id counters stay within bounds)
Creating(o) == Cardinality({q \in Procs : InFlight(q) /\ req[q].op = o})

\* the handler returned: context.JSON(status, ...)
Respond(p, r) == req' = [req EXCEPT ![p].pc = "done", ![p].resp = r]

NewReq(o, u, i) == [IdleReq EXCEPT !.op = o, !.user = u, !.id = i]

\* ------------------------------------------------------------ SQL helpers
SectionsOf(u) == {s \in sections : s.user_id = u}
TasksOf(sid) == {t \in tasks : t.section_id = sid}

SetMax(S) == CHOOSE m \in S : \A x \in S : x <= m

\* variant: the MAX is taken over the sections of every user
NextSectionSortAllUsers(u) ==
    IF sections = {} THEN 1
    ELSE SetMax({s.sort_order : s \in sections}) + 1

\* SELECT MAX(sort_order) FROM sections WHERE user_id = ?  ; newSort := 1 or max+1
NextSectionSort(u) ==
    IF SectionsOf(u) = {} THEN 1
    ELSE SetMax({s.sort_order : s \in SectionsOf(u)}) + 1

\* variant: the MAX is taken over the tasks of every section
NextTaskSortAllSections(sid) ==
    IF tasks = {} THEN 1
    ELSE SetMax({t.sort_order : t \in tasks}) + 1

\* SELECT MAX(sort_order) FROM tasks WHERE section_id = ?  ; newSort := 1 or max+1
NextTaskSort(sid) ==
    IF TasksOf(sid) = {} THEN 1
    ELSE SetMax({t.sort_order : t \in TasksOf(sid)}) + 1

\* The orders in which a statement with ORDER BY sort_order can visit the rows R:
\* ascending sort_order, rows of equal sort_order in any order.
Numberings(R) ==
    LET ids == {r.id : r \in R} IN
    {f \in [ids -> 1..Cardinality(R)] :
        /\ \A a, b \in R : a.id # b.id => f[a.id] # f[b.id]
        /\ \A a, b \in R : a.sort_order < b.sort_order => f[a.id] < f[b.id]}

\* UPDATE sections SET sort_order = (@rank := @rank + 1) WHERE user_id = ? ORDER BY sort_order ASC
\* run on a session whose @rank is r0, visiting the rows in the order f
RenumberSections(S, u, r0, f) ==
    {IF s.user_id = u THEN [s EXCEPT !.sort_order = r0 + f[s.id]] ELSE s : s \in S}

\* variant: ROW_NUMBER() OVER (ORDER BY id)
RenumberTasksById(T, sid, f) ==
    {IF t.section_id = sid
     THEN [t EXCEPT !.sort_order =
             Cardinality({o \in T : o.section_id = sid /\ o.id <= t.id})]
     ELSE t : t \in T}

\* variant: ROW_NUMBER() OVER (ORDER BY sort_order DESC)
RenumberTasksDescending(T, sid, f) ==
    LET n == Cardinality({t \in T : t.section_id = sid}) IN
    {IF t.section_id = sid THEN [t EXCEPT !.sort_order = n + 1 - f[t.id]] ELSE t : t \in T}

\* variant: the numbering starts at 0
RenumberTasksZeroBased(T, sid, f) ==
    {IF t.section_id = sid THEN [t EXCEPT !.sort_order = f[t.id] - 1] ELSE t : t \in T}

\* variant: no WHERE section_id = ?, ROW_NUMBER() runs over the whole table
RenumberTasksEverySection(T, sid, f) ==
    {[t EXCEPT !.sort_order =
        Cardinality({o \in T : \/ o.sort_order < t.sort_order
                               \/ o.sort_order = t.sort_order /\ o.id <= t.id})]
     : t \in T}
\* UPDATE tasks t JOIN (SELECT id, ROW_NUMBER() OVER (ORDER BY sort_order) ...
\*   WHERE section_id = ?) sorted ON t.id = sorted.id SET t.sort_order = sorted.new_sort
RenumberTasks(T, sid, f) ==
    {IF t.section_id = sid THEN [t EXCEPT !.sort_order = f[t.id]] ELSE t : t \in T}

\* The pooled sessions a statement of request p can run on: an open session,
\* or a fresh one when another request is in flight and may occupy the open ones.
SessionsFor(p) ==
    opened \cup (IF \E q \in Procs \ {p} : InFlight(q) THEN Conns ELSE {})

\* ------------------------------------------------- accounts and tokens
\* os.Getenv("JWT_SECRET"): unset, or the secret the deployment configures
Secrets == {"", "configured"}

\* Login's fallback when JWT_SECRET is unset
DefaultSecret == "default_secret"

\* a key that is neither the configured secret nor the fallback
ForeignKey == "foreign"

\* bcrypt: GenerateFromPassword(password) and CompareHashAndPassword(hash, password)
Passwords == {"pw1", "pw2"}
GenerateFromPassword(pw) == [bcrypt |-> pw]
CompareHashAndPassword(h, pw) == h = GenerateFromPassword(pw)
NoHash == [bcrypt |-> ""]

\* The user_id claim of a token as jwt.MapClaims holds it after decoding the
\* JSON: a number (float64, here a multiple of one half), a string, or no claim.
Number(h) == [type |-> "number", halves |-> h]
UserIdClaims ==
    {Number(h) : h \in 0..(2 * MaxUser + 1)}
        \cup {[type |-> "string", halves |-> 0], [type |-> "absent", halves |-> 0]}

\* claims["user_id"].(float64)
IsFloat64(c) == c.type = "number"

\* int64(userIDFloat): the fraction is dropped
Int64(c) == c.halves \div 2

\* A token string: the signing method of its header, the key its signature was
\* made with, its user_id claim and its exp claim (Null: no exp claim).
SignedString(alg, key, uid, exp) == [alg |-> alg, key |-> key, user_id |-> uid, exp |-> exp]
NoToken == SignedString("", "", [type |-> "absent", halves |-> 0], Null)
Malformed == SignedString("malformed", "", [type |-> "absent", halves |-> 0], Null)

\* the Authorization header: absent, of another scheme, or "Bearer " + token
NoHeader == [scheme |-> "", token |-> NoToken]
BasicHeader == [scheme |-> "Basic", token |-> NoToken]
Bearer(t) == [scheme |-> "Bearer", token |-> t]

\* One request outside the planner handlers while it is served: the step it is
\* at, its route, the Authorization header, what the middleware put into the
\* context, the status answered, the JWT a Login returned, and ResetPassword's
\* token, new password, hash and passwordReset.UserID.
NewHttp == [pc |-> "idle", op |-> "none", header |-> NoHeader, user_id |-> 0,
            status |-> 0, token |-> NoToken, reset |-> 0, password |-> "",
            hashed |-> NoHash, target |-> 0]

\* a process that has not been handed such a request
IdleHttp == [pc |-> "idle", op |-> "none", status |-> 0]

\* main after its first ping has succeeded and it has reached r.Run: the step
\* it is at, the loop counter, the pings made and whether one has succeeded
Serving == [pc |-> "serving", attempt |-> 1, pings |-> 1, connected |-> TRUE]

\* the users table: the row of user u holds the e-mail address u
UsersStart == [u \in Users |-> [email |-> u, password_hash |-> GenerateFromPassword("pw1")]]

\* the state outside the planner while only planner requests are served
PlannerOnly ==
    /\ jwtSecret = "configured"
    /\ now = 0
    /\ http = [p \in Procs |-> IdleHttp]
    /\ users = UsersStart
    /\ password_resets = {}
    /\ boot = Serving
\* InnoDB row locks: a row an open transaction has updated stays locked until
\* the transaction commits or rolls back, and a statement of another request
\* that writes the row (or, for a foreign key check, reads the parent row)
\* waits for that.
TaskLocked(tid) == \E q \in Procs : \E x \in tx[q].wT : x.id = tid
SectionLocked(sid) == \E q \in Procs : \E x \in tx[q].wS : x.id = sid

\* ------------------------------------------------------------------ Init
Init ==
    /\ sections = {}
    /\ tasks = {}
    /\ nextSectionId = 1
    /\ nextTaskId = 1
    /\ rank = [c \in Conns |-> Null]
    /\ opened = {1}
    /\ req = [p \in Procs |-> IdleReq]
    /\ tx = [p \in Procs |-> IdleTx]
    /\ PlannerOnly

\* --------------------------------------------------------- CreateSection
\* variant: only a body without the title key is rejected, an empty title binds
CreateSectionInvalidMissingOnly(p, u, title) ==
    /\ ~InFlight(p)
    /\ ~Required(title)
    /\ req' = [req EXCEPT ![p] =
                 IF title = Absent
                 THEN [NewReq("CreateSection", u, 0) EXCEPT
                         !.pc = "done", !.resp = "invalid_input",
                         !.keys = Keys(title, Absent, Absent),
                         !.body.title = BindString(title)]
                 ELSE [NewReq("CreateSection", u, 0) EXCEPT
                         !.pc = "cs_insert",
                         !.newSort = NextSectionSort(u),
                         !.keys = Keys(title, Absent, Absent),
                         !.body.title = BindString(title)]]
    /\ UNCHANGED <<db, pool>>
    /\ UNCHANGED tx
    /\ UNCHANGED <<auth, boot>>
\* request arrives, the body does not bind (title is binding:"required"): 400 "Invalid input"
CreateSectionInvalid(p, u, title) ==
    /\ ~InFlight(p)
    /\ ~Required(title)
    /\ req' = [req EXCEPT ![p] = [NewReq("CreateSection", u, 0) EXCEPT
                                    !.pc = "done", !.resp = "invalid_input",
                                    !.keys = Keys(title, Absent, Absent),
                                    !.body.title = BindString(title)]]
    /\ UNCHANGED <<db, pool>>
    /\ UNCHANGED tx
    /\ UNCHANGED <<auth, boot>>

\* request arrives, body binds, SELECT MAX(sort_order) runs
CreateSectionSelectMax(p, u, title) ==
    /\ ~InFlight(p)
    /\ Required(title)
    /\ nextSectionId + Creating("CreateSection") <= MaxSectionId
    /\ req' = [req EXCEPT ![p] = [NewReq("CreateSection", u, 0) EXCEPT
                                    !.pc = "cs_insert",
                                    !.newSort = NextSectionSort(u),
                                    !.keys = Keys(title, Absent, Absent),
                                    !.body.title = BindString(title)]]
    /\ UNCHANGED <<db, pool>>
    /\ UNCHANGED tx
    /\ UNCHANGED <<auth, boot>>

\* INSERT INTO sections (user_id, title, sort_order)
CreateSectionInsert(p) ==
    /\ req[p].pc = "cs_insert"
    /\ sections' = sections \cup {[id |-> nextSectionId, user_id |-> req[p].user,
                                   sort_order |-> req[p].newSort,
                                   title |-> req[p].body.title]}
    /\ nextSectionId' = nextSectionId + 1
    /\ req' = [req EXCEPT ![p].pc = "done", ![p].resp = "ok", ![p].id = nextSectionId]
    /\ UNCHANGED <<tasks, nextTaskId, pool>>
    /\ UNCHANGED tx
    /\ UNCHANGED <<auth, boot>>

\* --------------------------------------------------------- DeleteSection
\* ----------------------------------------------------------- GetSections
\* the rows R in the order f a query returned them
Ordered(R, f) == [i \in 1..Cardinality(R) |-> CHOOSE r \in R : f[r.id] = i]

\* rows.Scan into models.Section
SectionJSON(s) == [id |-> s.id, title |-> s.title, sort_order |-> s.sort_order]

\* variant: SELECT ... FROM sections ORDER BY sort_order ASC, without WHERE user_id = ?
GetSectionsOfEveryUser(p, u) ==
    /\ ~InFlight(p)
    /\ \E f \in Numberings(sections) :
         LET rows == Ordered(sections, f) IN
         req' = [req EXCEPT ![p] =
                   [NewReq("GetSections", u, 0) EXCEPT
                      !.pc = "done", !.resp = "ok",
                      !.result = [i \in 1..Len(rows) |-> SectionJSON(rows[i])]]]
    /\ UNCHANGED <<db, pool>>
    /\ UNCHANGED tx
    /\ UNCHANGED <<auth, boot>>

\* SELECT id, title, sort_order, ... FROM sections WHERE user_id = ? ORDER BY sort_order ASC
\* and the scanned rows appended in the order they arrive
GetSections(p, u) ==
    /\ ~InFlight(p)
    /\ \E f \in Numberings(SectionsOf(u)) :
         LET rows == Ordered(SectionsOf(u), f) IN
         req' = [req EXCEPT ![p] =
                   [NewReq("GetSections", u, 0) EXCEPT
                      !.pc = "done", !.resp = "ok",
                      !.result = [i \in 1..Len(rows) |-> SectionJSON(rows[i])]]]
    /\ UNCHANGED <<db, pool>>
    /\ UNCHANGED tx
    /\ UNCHANGED <<auth, boot>>

\* -------------------------------------------------- GetSectionsWithTasks
\* sectionRows.Scan into models.SectionWithTasks, section.Tasks = []models.Task{}
SectionWithTasksJSON(s) ==
    [id |-> s.id, title |-> s.title, sort_order |-> s.sort_order, tasks |-> <<>>]

\* taskRows.Scan into models.Task
TaskJSON(t) ==
    [id |-> t.id, section_id |-> t.section_id, title |-> t.title, content |-> t.content,
     is_completed |-> t.is_completed, sort_order |-> t.sort_order]

\* the first query: the caller's sections in ascending sort_order; with no
\* section the handler answers the empty list at once
GetSectionsWithTasksSections(p, u) ==
    /\ ~InFlight(p)
    /\ \E f \in Numberings(SectionsOf(u)) :
         LET rows == Ordered(SectionsOf(u), f) IN
         req' = [req EXCEPT ![p] =
                   [NewReq("GetSectionsWithTasks", u, 0) EXCEPT
                      !.pc = IF Len(rows) = 0 THEN "done" ELSE "gt_tasks",
                      !.resp = IF Len(rows) = 0 THEN "ok" ELSE "none",
                      !.result = [i \in 1..Len(rows) |-> SectionWithTasksJSON(rows[i])]]]
    /\ UNCHANGED <<db, pool>>
    /\ UNCHANGED tx
    /\ UNCHANGED <<auth, boot>>

\* variant: the task query has no ORDER BY, the rows arrive in the order of their ids
GetSectionsWithTasksTasksById(p) ==
    /\ req[p].pc = "gt_tasks"
    /\ LET r == req[p].result
           found == {t \in tasks : \E i \in 1..Len(r) : r[i].id = t.section_id}
           rows == [k \in 1..Cardinality(found) |->
                      CHOOSE t \in found : Cardinality({o \in found : o.id <= t.id}) = k] IN
       req' = [req EXCEPT
                 ![p].pc = "done", ![p].resp = "ok",
                 ![p].result =
                    [i \in 1..Len(r) |->
                       LET Here(t) == t.section_id = r[i].id IN
                       [r[i] EXCEPT !.tasks =
                          SelectSeq([k \in 1..Len(rows) |-> TaskJSON(rows[k])], Here)]]]
    /\ UNCHANGED <<db, pool>>
    /\ UNCHANGED tx
    /\ UNCHANGED <<auth, boot>>

\* the second query (buildTaskQuery): SELECT ... FROM tasks WHERE section_id IN (?, ...)
\* ORDER BY sort_order ASC; each row is appended to the section of the map it
\* names, and the sections are listed in the order of the first query
GetSectionsWithTasksTasks(p) ==
    /\ req[p].pc = "gt_tasks"
    /\ LET r == req[p].result
           found == {t \in tasks : \E i \in 1..Len(r) : r[i].id = t.section_id} IN
       \E g \in Numberings(found) :
          LET rows == Ordered(found, g) IN
          req' = [req EXCEPT
                    ![p].pc = "done", ![p].resp = "ok",
                    ![p].result =
                       [i \in 1..Len(r) |->
                          LET Here(t) == t.section_id = r[i].id IN
                          [r[i] EXCEPT !.tasks =
                             SelectSeq([k \in 1..Len(rows) |-> TaskJSON(rows[k])], Here)]]]
    /\ UNCHANGED <<db, pool>>
    /\ UNCHANGED tx
    /\ UNCHANGED <<auth, boot>>
\* variant: SELECT EXISTS (SELECT 1 FROM sections WHERE id = ?), the owner is not asked for
DeleteSectionExistsAnyOwner(p, u, sid) ==
    /\ ~InFlight(p)
    /\ LET exists == \E s \in sections : s.id = sid IN
       req' = [req EXCEPT ![p] =
                 IF exists
                 THEN [NewReq("DeleteSection", u, sid) EXCEPT !.pc = "ds_delete"]
                 ELSE [NewReq("DeleteSection", u, sid) EXCEPT
                         !.pc = "done", !.resp = "not_found_or_unauthorized"]]
    /\ UNCHANGED <<db, pool>>
    /\ UNCHANGED tx
    /\ UNCHANGED <<auth, boot>>

\* SELECT EXISTS (SELECT 1 FROM sections WHERE id = ? AND user_id = ?)
DeleteSectionExists(p, u, sid) ==
    /\ ~InFlight(p)
    /\ LET exists == \E s \in sections : s.id = sid /\ s.user_id = u IN
       req' = [req EXCEPT ![p] =
                 IF exists
                 THEN [NewReq("DeleteSection", u, sid) EXCEPT !.pc = "ds_delete"]
                 ELSE [NewReq("DeleteSection", u, sid) EXCEPT
                         !.pc = "done", !.resp = "not_found_or_unauthorized"]]
    /\ UNCHANGED <<db, pool>>
    /\ UNCHANGED tx
    /\ UNCHANGED <<auth, boot>>

\* DELETE FROM sections WHERE id = ? AND user_id = ?   (tasks: ON DELETE CASCADE)
DeleteSectionDelete(p) ==
    /\ req[p].pc = "ds_delete"
    /\ sections' = {s \in sections : ~(s.id = req[p].id /\ s.user_id = req[p].user)}
    /\ tasks' = {t \in tasks : \E s \in sections' : s.id = t.section_id}
    /\ req' = [req EXCEPT ![p].pc = "ds_set"]
    /\ UNCHANGED <<nextSectionId, nextTaskId, pool>>
    /\ UNCHANGED tx
    /\ UNCHANGED <<auth, boot>>

\* SET @rank := 0   on one pooled session
DeleteSectionSetRank(p) ==
    /\ req[p].pc = "ds_set"
    /\ \E c \in SessionsFor(p) :
         /\ rank' = [rank EXCEPT ![c] = 0]
         /\ opened' = opened \cup {c}
    /\ req' = [req EXCEPT ![p].pc = "ds_update"]
    /\ UNCHANGED db
    /\ UNCHANGED tx
    /\ UNCHANGED <<auth, boot>>

\* UPDATE sections SET sort_order = (@rank := @rank + 1) WHERE user_id = ? ORDER BY sort_order ASC
\* on one pooled session; with @rank NULL the value is NULL and the NOT NULL column rejects it
DeleteSectionUpdate(p) ==
    /\ req[p].pc = "ds_update"
    /\ \E c \in SessionsFor(p) :
         /\ opened' = opened \cup {c}
         /\ IF rank[c] = Null /\ SectionsOf(req[p].user) # {}
            THEN /\ Respond(p, "deleted_but_failed_to_reorder")
                 /\ UNCHANGED <<db, rank>>
            ELSE /\ \E f \in Numberings(SectionsOf(req[p].user)) :
                      sections' = RenumberSections(sections, req[p].user, rank[c], f)
                 /\ rank' = [rank EXCEPT ![c] =
                               IF rank[c] = Null THEN Null
                               ELSE rank[c] + Cardinality(SectionsOf(req[p].user))]
                 /\ Respond(p, "ok")
                 /\ UNCHANGED <<tasks, nextSectionId, nextTaskId>>
    /\ UNCHANGED tx
    /\ UNCHANGED <<auth, boot>>

\* ------------------------------------------------------------ CreateTask
\* variant: SELECT 1 FROM sections WHERE id = ?, the owner is not compared with the caller
CreateTaskOwnerAnyOwner(p, u, sid) ==
    /\ ~InFlight(p)
    /\ nextTaskId + Creating("CreateTask") <= MaxTaskId
    /\ LET owned == \E s \in sections : s.id = sid
           input == [NewReq("CreateTask", u, 0) EXCEPT
                       !.section = sid,
                       !.keys = Keys(SomeTitle, SomeTitle, Absent),
                       !.body.title = BindString(SomeTitle),
                       !.body.content = BindString(SomeTitle)] IN
       req' = [req EXCEPT ![p] =
                 IF owned
                 THEN [input EXCEPT !.pc = "ct_max"]
                 ELSE [input EXCEPT !.pc = "done", !.resp = "forbidden"]]
    /\ UNCHANGED <<db, pool>>
    /\ UNCHANGED tx
    /\ UNCHANGED <<auth, boot>>
\* body binds (title and content SomeTitle),
\* SELECT user_id FROM sections WHERE id = ?   ; Forbidden unless owned by the caller
CreateTaskOwner(p, u, sid) ==
    /\ ~InFlight(p)
    /\ nextTaskId + Creating("CreateTask") <= MaxTaskId
    /\ LET owned == \E s \in sections : s.id = sid /\ s.user_id = u
           input == [NewReq("CreateTask", u, 0) EXCEPT
                       !.section = sid,
                       !.keys = Keys(SomeTitle, SomeTitle, Absent),
                       !.body.title = BindString(SomeTitle),
                       !.body.content = BindString(SomeTitle)] IN
       req' = [req EXCEPT ![p] =
                 IF owned
                 THEN [input EXCEPT !.pc = "ct_max"]
                 ELSE [input EXCEPT !.pc = "done", !.resp = "forbidden"]]
    /\ UNCHANGED <<db, pool>>
    /\ UNCHANGED tx
    /\ UNCHANGED <<auth, boot>>

\* SELECT MAX(sort_order) FROM tasks WHERE section_id = ?
CreateTaskSelectMax(p) ==
    /\ req[p].pc = "ct_max"
    /\ req' = [req EXCEPT ![p].pc = "ct_insert",
                          ![p].newSort = NextTaskSort(req[p].section)]
    /\ UNCHANGED <<db, pool>>
    /\ UNCHANGED tx
    /\ UNCHANGED <<auth, boot>>

\* variant: tasks.section_id carries no foreign key, the INSERT always succeeds
CreateTaskInsertNoForeignKey(p) ==
    /\ req[p].pc = "ct_insert"
    /\ tasks' = tasks \cup {[id |-> nextTaskId, section_id |-> req[p].section,
                             user_id |-> req[p].user,
                             sort_order |-> req[p].newSort,
                             title |-> req[p].body.title,
                             content |-> req[p].body.content,
                             is_completed |-> FALSE]}
    /\ nextTaskId' = nextTaskId + 1
    /\ req' = [req EXCEPT ![p].pc = "done", ![p].resp = "ok", ![p].id = nextTaskId]
    /\ UNCHANGED <<sections, nextSectionId, pool>>
    /\ UNCHANGED tx
    /\ UNCHANGED <<auth, boot>>
\* INSERT INTO tasks (user_id, section_id, title, content, is_completed, sort_order, ...)
\* VALUES (?, ?, ?, ?, false, ?, ...); the foreign key on section_id rejects the row
\* when the section is gone
CreateTaskInsert(p) ==
    /\ req[p].pc = "ct_insert"
    /\ ~SectionLocked(req[p].section)
    /\ IF \E s \in sections : s.id = req[p].section
       THEN /\ tasks' = tasks \cup {[id |-> nextTaskId, section_id |-> req[p].section,
                                     user_id |-> req[p].user,
                                     sort_order |-> req[p].newSort,
                                     title |-> req[p].body.title,
                                     content |-> req[p].body.content,
                                     is_completed |-> FALSE]}
            /\ nextTaskId' = nextTaskId + 1
            /\ req' = [req EXCEPT ![p].pc = "done", ![p].resp = "ok", ![p].id = nextTaskId]
            /\ UNCHANGED <<sections, nextSectionId, pool>>
       ELSE /\ Respond(p, "failed_to_create")
            /\ UNCHANGED <<db, pool>>
    /\ UNCHANGED tx
    /\ UNCHANGED <<auth, boot>>

\* ------------------------------------------------------------ DeleteTask
\* SELECT s.id, s.user_id FROM tasks t JOIN sections s ON t.section_id = s.id WHERE t.id = ?
DeleteTaskJoin(p, u, tid) ==
    /\ ~InFlight(p)
    /\ LET found == {t \in tasks : t.id = tid /\ \E s \in sections : s.id = t.section_id} IN
       req' = [req EXCEPT ![p] =
                 IF found = {}
                 THEN [NewReq("DeleteTask", u, tid) EXCEPT
                         !.pc = "done", !.resp = "invalid_task_id"]
                 ELSE LET t == CHOOSE x \in found : TRUE
                          s == CHOOSE x \in sections : x.id = t.section_id IN
                      IF s.user_id # u
                      THEN [NewReq("DeleteTask", u, tid) EXCEPT
                              !.pc = "done", !.section = s.id, !.resp = "forbidden"]
                      ELSE [NewReq("DeleteTask", u, tid) EXCEPT
                              !.pc = "dt_delete", !.section = s.id]]
    /\ UNCHANGED <<db, pool>>
    /\ UNCHANGED tx
    /\ UNCHANGED <<auth, boot>>

\* DELETE FROM tasks WHERE id = ?
DeleteTaskDelete(p) ==
    /\ req[p].pc = "dt_delete"
    /\ ~TaskLocked(req[p].id)
    /\ tasks' = {t \in tasks : t.id # req[p].id}
    /\ req' = [req EXCEPT ![p].pc = "dt_update"]
    /\ UNCHANGED <<sections, nextSectionId, nextTaskId, pool>>
    /\ UNCHANGED tx
    /\ UNCHANGED <<auth, boot>>

\* the single-statement renumbering of the section read in the first step
DeleteTaskUpdate(p) ==
    /\ req[p].pc = "dt_update"
    /\ \A t \in TasksOf(req[p].section) : ~TaskLocked(t.id)
    /\ \E f \in Numberings(TasksOf(req[p].section)) :
         tasks' = RenumberTasks(tasks, req[p].section, f)
    /\ Respond(p, "ok")
    /\ UNCHANGED <<sections, nextSectionId, nextTaskId, pool>>
    /\ UNCHANGED tx
    /\ UNCHANGED <<auth, boot>>

\* ------------------------------------ failing statements of DeleteSection
\* database.Exec("DELETE FROM sections ...") returns an error: no row is deleted
DeleteSectionDeleteFails(p) ==
    /\ req[p].pc = "ds_delete"
    /\ Respond(p, "failed_to_delete_section")
    /\ UNCHANGED <<db, pool>>
    /\ UNCHANGED tx
    /\ UNCHANGED <<auth, boot>>

\* variant: the error of SET @rank is answered as a failed delete
DeleteSectionSetRankFailsAsDelete(p) ==
    /\ req[p].pc = "ds_set"
    /\ Respond(p, "failed_to_delete_section")
    /\ UNCHANGED <<db, pool>>
    /\ UNCHANGED tx
    /\ UNCHANGED <<auth, boot>>

\* database.Exec("SET @rank := 0") returns an error
DeleteSectionSetRankFails(p) ==
    /\ req[p].pc = "ds_set"
    /\ Respond(p, "deleted_but_failed_to_reorder")
    /\ UNCHANGED <<db, pool>>
    /\ UNCHANGED tx
    /\ UNCHANGED <<auth, boot>>

\* the renumbering UPDATE returns an error: the statement changes no row
DeleteSectionUpdateFails(p) ==
    /\ req[p].pc = "ds_update"
    /\ Respond(p, "deleted_but_failed_to_reorder")
    /\ UNCHANGED <<db, pool>>
    /\ UNCHANGED tx
    /\ UNCHANGED <<auth, boot>>

\* --------------------------------------------------------- UpdateSection
\* variant: a section that exists but is another user's is answered with Forbidden
UpdateSectionExistsTellsForeign(p, u, sid) ==
    /\ ~InFlight(p)
    /\ \E title \in StringInputs :
         LET exists == \E s \in sections : s.id = sid /\ s.user_id = u
             foreign == \E s \in sections : s.id = sid /\ s.user_id # u
             input == [NewReq("UpdateSection", u, sid) EXCEPT
                         !.keys = Keys(title, Absent, Absent),
                         !.body.title = BindString(title)] IN
         req' = [req EXCEPT ![p] =
                   IF ~Required(title)
                   THEN [input EXCEPT !.pc = "done", !.resp = "invalid_input"]
                   ELSE IF exists
                   THEN [input EXCEPT !.pc = "us_update"]
                   ELSE [input EXCEPT
                           !.pc = "done",
                           !.resp = IF foreign THEN "forbidden"
                                    ELSE "not_found_or_unauthorized"]]
    /\ UNCHANGED <<db, pool>>
    /\ UNCHANGED tx
    /\ UNCHANGED <<auth, boot>>

\* the body binds or not (title is binding:"required": 400 "Invalid input"), then
\* SELECT EXISTS (SELECT 1 FROM sections WHERE id = ? AND user_id = ?)
UpdateSectionExists(p, u, sid) ==
    /\ ~InFlight(p)
    /\ \E title \in StringInputs :
         LET exists == \E s \in sections : s.id = sid /\ s.user_id = u
             input == [NewReq("UpdateSection", u, sid) EXCEPT
                         !.keys = Keys(title, Absent, Absent),
                         !.body.title = BindString(title)] IN
         req' = [req EXCEPT ![p] =
                   IF ~Required(title)
                   THEN [input EXCEPT !.pc = "done", !.resp = "invalid_input"]
                   ELSE IF exists
                   THEN [input EXCEPT !.pc = "us_update"]
                   ELSE [input EXCEPT
                           !.pc = "done", !.resp = "not_found_or_unauthorized"]]
    /\ UNCHANGED <<db, pool>>
    /\ UNCHANGED tx
    /\ UNCHANGED <<auth, boot>>

\* UPDATE sections SET title = ?, updated_at = CURRENT_TIMESTAMP WHERE id = ? AND user_id = ?
UpdateSectionUpdate(p) ==
    /\ req[p].pc = "us_update"
    /\ sections' = {IF s.id = req[p].id /\ s.user_id = req[p].user
                    THEN [s EXCEPT !.title = req[p].body.title]
                    ELSE s : s \in sections}
    /\ Respond(p, "ok")
    /\ UNCHANGED <<tasks, nextSectionId, nextTaskId, pool>>
    /\ UNCHANGED tx
    /\ UNCHANGED <<auth, boot>>

\* the UPDATE returns an error
UpdateSectionUpdateFails(p) ==
    /\ req[p].pc = "us_update"
    /\ Respond(p, "failed_to_update_section")
    /\ UNCHANGED <<db, pool>>
    /\ UNCHANGED tx
    /\ UNCHANGED <<auth, boot>>

\* ------------------------------------------------------------ UpdateTask
\* body binds (no field of UpdateTaskInput is required),
\* SELECT user_id FROM tasks WHERE id = ?  ; "Task not found" (400) when
\* no row, "Unauthorized to modify this task" (403) when the row is another user's
UpdateTaskOwner(p, u, tid) ==
    /\ ~InFlight(p)
    /\ \E title \in StringInputs, content \in StringInputs, completed \in BoolInputs :
         LET found == {t \in tasks : t.id = tid}
             input == [NewReq("UpdateTask", u, tid) EXCEPT
                         !.keys = Keys(title, content, completed),
                         !.body = [title |-> BindString(title),
                                   content |-> BindString(content),
                                   is_completed |-> BindBool(completed)]] IN
         req' = [req EXCEPT ![p] =
                   IF found = {}
                   THEN [input EXCEPT !.pc = "done", !.resp = "task_not_found"]
                   ELSE IF (CHOOSE t \in found : TRUE).user_id # u
                   THEN [input EXCEPT !.pc = "done", !.resp = "unauthorized_to_modify"]
                   ELSE [input EXCEPT !.pc = "ut_update"]]
    /\ UNCHANGED <<db, pool>>
    /\ UNCHANGED tx
    /\ UNCHANGED <<auth, boot>>

\* variant: the UPDATE also sets sort_order = 0
UpdateTaskUpdateResetsSort(p) ==
    /\ req[p].pc = "ut_update"
    /\ tasks' = {IF t.id = req[p].id
                 THEN [t EXCEPT !.title = req[p].body.title,
                                !.content = req[p].body.content,
                                !.is_completed = req[p].body.is_completed,
                                !.sort_order = 0]
                 ELSE t : t \in tasks}
    /\ Respond(p, "ok")
    /\ UNCHANGED <<sections, nextSectionId, nextTaskId, pool>>
    /\ UNCHANGED tx
    /\ UNCHANGED <<auth, boot>>
\* UPDATE tasks SET title = ?, content = ?, is_completed = ?, updated_at = ... WHERE id = ?
\* with input.Title, input.Content, input.IsCompleted
UpdateTaskUpdate(p) ==
    /\ req[p].pc = "ut_update"
    /\ tasks' = {IF t.id = req[p].id
                 THEN [t EXCEPT !.title = req[p].body.title,
                                !.content = req[p].body.content,
                                !.is_completed = req[p].body.is_completed]
                 ELSE t : t \in tasks}
    /\ Respond(p, "ok")
    /\ UNCHANGED <<sections, nextSectionId, nextTaskId, pool>>
    /\ UNCHANGED tx
    /\ UNCHANGED <<auth, boot>>

\* the UPDATE returns an error
UpdateTaskUpdateFails(p) ==
    /\ req[p].pc = "ut_update"
    /\ Respond(p, "failed_to_update_task")
    /\ UNCHANGED <<db, pool>>
    /\ UNCHANGED tx
    /\ UNCHANGED <<auth, boot>>

\* ----------------------------------------------- UpdateSectionsWithTasks
\* the request body: a list of sections, each with its list of tasks; the
\* handler reads section.ID and task.ID only
MaxPayloadSize == 4

RECURSIVE PayloadsUpTo(_)
PayloadsUpTo(n) ==
    IF n = 0 THEN {<<>>}
    ELSE {<<>>} \cup
         UNION {{<<[id |-> sid, tasks |-> tl]>> \o rest :
                    sid \in SectionIds, tl \in [1..k -> TaskIds],
                    rest \in PayloadsUpTo(n - 1 - k)} : k \in 0..(n - 1)}

Payloads == PayloadsUpTo(MaxPayloadSize)

BatchOp == "UpdateSectionsWithTasks"

\* transaction.Rollback() and the error response
Rollback(p, r) ==
    /\ tx' = [tx EXCEPT ![p] = IdleTx]
    /\ Respond(p, r)

\* the rows the transaction's consistent reads see: those of its first read
SnapS(p) == IF tx[p].snapped THEN tx[p].snapS ELSE {<<s.id, s.user_id>> : s \in sections}
SnapT(p) == IF tx[p].snapped THEN tx[p].snapT ELSE {t.id : t \in tasks}

\* body binds, database.Begin()
BatchBegin(p, u, pl) ==
    /\ ~InFlight(p)
    /\ req' = [req EXCEPT ![p] = [NewReq(BatchOp, u, 0) EXCEPT
                 !.pc = IF Len(pl) = 0 THEN "bt_commit" ELSE "bt_owner"]]
    /\ tx' = [tx EXCEPT ![p] = [IdleTx EXCEPT !.payload = pl,
                                             !.i = IF Len(pl) = 0 THEN 0 ELSE 1]]
    /\ UNCHANGED <<db, pool>>
    /\ UNCHANGED <<auth, boot>>

\* variant: the check passes for any existing section, whoever owns it
BatchSectionOwnerAnyOwner(p) ==
    /\ req[p].pc = "bt_owner"
    /\ IF \E u \in Users : <<tx[p].payload[tx[p].i].id, u>> \in SnapS(p)
       THEN /\ tx' = [tx EXCEPT ![p].snapped = TRUE,
                                ![p].snapS = SnapS(p), ![p].snapT = SnapT(p)]
            /\ req' = [req EXCEPT ![p].pc = "bt_secupd"]
       ELSE Rollback(p, "forbidden")
    /\ UNCHANGED <<db, pool>>
    /\ UNCHANGED <<auth, boot>>

\* SELECT user_id FROM sections WHERE id = ?   ; Forbidden unless owned by the caller
BatchSectionOwner(p) ==
    /\ req[p].pc = "bt_owner"
    /\ IF <<tx[p].payload[tx[p].i].id, req[p].user>> \in SnapS(p)
       THEN /\ tx' = [tx EXCEPT ![p].snapped = TRUE,
                                ![p].snapS = SnapS(p), ![p].snapT = SnapT(p)]
            /\ req' = [req EXCEPT ![p].pc = "bt_secupd"]
       ELSE Rollback(p, "forbidden")
    /\ UNCHANGED <<db, pool>>
    /\ UNCHANGED <<auth, boot>>

\* variant: sort_order = index, the 0-based position
BatchSectionUpdateZeroBased(p) ==
    /\ req[p].pc = "bt_secupd"
    /\ LET sec == tx[p].payload[tx[p].i]
           w == IF \E s \in sections : s.id = sec.id
                THEN {x \in tx[p].wS : x.id # sec.id}
                        \cup {[id |-> sec.id, sort_order |-> tx[p].i - 1]}
                ELSE tx[p].wS
       IN IF Len(sec.tasks) > 0
          THEN /\ tx' = [tx EXCEPT ![p].wS = w, ![p].j = 1]
               /\ req' = [req EXCEPT ![p].pc = "bt_task"]
          ELSE IF tx[p].i < Len(tx[p].payload)
          THEN /\ tx' = [tx EXCEPT ![p].wS = w, ![p].i = tx[p].i + 1, ![p].j = 0]
               /\ req' = [req EXCEPT ![p].pc = "bt_owner"]
          ELSE /\ tx' = [tx EXCEPT ![p].wS = w]
               /\ req' = [req EXCEPT ![p].pc = "bt_commit"]
    /\ UNCHANGED <<db, pool>>
    /\ UNCHANGED <<auth, boot>>

\* UPDATE sections SET sort_order = index+1 WHERE id = ?   (uncommitted)
BatchSectionUpdate(p) ==
    /\ req[p].pc = "bt_secupd"
    /\ LET sec == tx[p].payload[tx[p].i]
           w == IF \E s \in sections : s.id = sec.id
                THEN {x \in tx[p].wS : x.id # sec.id}
                        \cup {[id |-> sec.id, sort_order |-> tx[p].i]}
                ELSE tx[p].wS
       IN IF Len(sec.tasks) > 0
          THEN /\ tx' = [tx EXCEPT ![p].wS = w, ![p].j = 1]
               /\ req' = [req EXCEPT ![p].pc = "bt_task"]
          ELSE IF tx[p].i < Len(tx[p].payload)
          THEN /\ tx' = [tx EXCEPT ![p].wS = w, ![p].i = tx[p].i + 1, ![p].j = 0]
               /\ req' = [req EXCEPT ![p].pc = "bt_owner"]
          ELSE /\ tx' = [tx EXCEPT ![p].wS = w]
               /\ req' = [req EXCEPT ![p].pc = "bt_commit"]
    /\ UNCHANGED <<db, pool>>
    /\ UNCHANGED <<auth, boot>>

\* variant: on a missing task the transaction is committed instead of rolled back
BatchTaskSelectCommits(p) ==
    /\ req[p].pc = "bt_task"
    /\ IF tx[p].payload[tx[p].i].tasks[tx[p].j] \in SnapT(p)
       THEN /\ req' = [req EXCEPT ![p].pc = "bt_taskupd"]
            /\ UNCHANGED <<tx, sections, tasks>>
       ELSE /\ sections' = {IF \E x \in tx[p].wS : x.id = s.id
                            THEN [s EXCEPT !.sort_order =
                                    (CHOOSE x \in tx[p].wS : x.id = s.id).sort_order]
                            ELSE s : s \in sections}
            /\ tasks' = {IF \E x \in tx[p].wT : x.id = t.id
                         THEN [t EXCEPT !.sort_order =
                                 (CHOOSE x \in tx[p].wT : x.id = t.id).sort_order,
                                        !.section_id =
                                 (CHOOSE x \in tx[p].wT : x.id = t.id).section_id]
                         ELSE t : t \in tasks}
            /\ Rollback(p, "task_not_found")
    /\ UNCHANGED <<nextSectionId, nextTaskId, pool>>
    /\ UNCHANGED <<auth, boot>>

\* SELECT section_id FROM tasks WHERE id = ?   ; "Task not found" when no row
BatchTaskSelect(p) ==
    /\ req[p].pc = "bt_task"
    /\ IF tx[p].payload[tx[p].i].tasks[tx[p].j] \in SnapT(p)
       THEN /\ req' = [req EXCEPT ![p].pc = "bt_taskupd"]
            /\ UNCHANGED tx
       ELSE Rollback(p, "task_not_found")
    /\ UNCHANGED <<db, pool>>
    /\ UNCHANGED <<auth, boot>>

\* variant: UPDATE tasks SET sort_order = ? WHERE id = ?, the section_id is left alone
BatchTaskUpdateKeepsSection(p) ==
    /\ req[p].pc = "bt_taskupd"
    /\ LET sec == tx[p].payload[tx[p].i]
           tid == sec.tasks[tx[p].j]
           hit == \E t \in tasks : t.id = tid
           w == IF hit
                THEN {x \in tx[p].wT : x.id # tid}
                        \cup {[id |-> tid,
                               section_id |-> (CHOOSE t \in tasks : t.id = tid).section_id,
                               sort_order |-> tx[p].j]}
                ELSE tx[p].wT
       IN IF tx[p].j < Len(sec.tasks)
          THEN /\ tx' = [tx EXCEPT ![p].wT = w, ![p].j = tx[p].j + 1]
               /\ req' = [req EXCEPT ![p].pc = "bt_task"]
          ELSE IF tx[p].i < Len(tx[p].payload)
          THEN /\ tx' = [tx EXCEPT ![p].wT = w, ![p].i = tx[p].i + 1, ![p].j = 0]
               /\ req' = [req EXCEPT ![p].pc = "bt_owner"]
          ELSE /\ tx' = [tx EXCEPT ![p].wT = w]
               /\ req' = [req EXCEPT ![p].pc = "bt_commit"]
    /\ UNCHANGED <<db, pool>>
    /\ UNCHANGED <<auth, boot>>

\* UPDATE tasks SET section_id = ?, sort_order = taskIndex+1 WHERE id = ?   (uncommitted);
\* the foreign key on section_id fails the statement when the section is gone
BatchTaskUpdate(p) ==
    /\ req[p].pc = "bt_taskupd"
    /\ LET sec == tx[p].payload[tx[p].i]
           tid == sec.tasks[tx[p].j]
           hit == \E t \in tasks : t.id = tid
           w == IF hit
                THEN {x \in tx[p].wT : x.id # tid}
                        \cup {[id |-> tid, section_id |-> sec.id, sort_order |-> tx[p].j]}
                ELSE tx[p].wT
       IN IF hit /\ ~\E s \in sections : s.id = sec.id
          THEN Rollback(p, "failed_to_update_task")
          ELSE IF tx[p].j < Len(sec.tasks)
          THEN /\ tx' = [tx EXCEPT ![p].wT = w, ![p].j = tx[p].j + 1]
               /\ req' = [req EXCEPT ![p].pc = "bt_task"]
          ELSE IF tx[p].i < Len(tx[p].payload)
          THEN /\ tx' = [tx EXCEPT ![p].wT = w, ![p].i = tx[p].i + 1, ![p].j = 0]
               /\ req' = [req EXCEPT ![p].pc = "bt_owner"]
          ELSE /\ tx' = [tx EXCEPT ![p].wT = w]
               /\ req' = [req EXCEPT ![p].pc = "bt_commit"]
    /\ UNCHANGED <<db, pool>>
    /\ UNCHANGED <<auth, boot>>

\* the tables with the transaction's updates applied
ApplySectionWrites(S, w) ==
    {IF \E x \in w : x.id = s.id
     THEN [s EXCEPT !.sort_order = (CHOOSE x \in w : x.id = s.id).sort_order]
     ELSE s : s \in S}

\* variant: the UPDATE also sets title, content and is_completed from the entry
\* of the payload, which binds the zero values when it does not carry them
ApplyTaskWritesWithText(T, w) ==
    {IF \E x \in w : x.id = t.id
     THEN LET x == CHOOSE y \in w : y.id = t.id
          IN [t EXCEPT !.section_id = x.section_id, !.sort_order = x.sort_order,
                       !.title = NoBody.title, !.content = NoBody.content,
                       !.is_completed = NoBody.is_completed]
     ELSE t : t \in T}
ApplyTaskWrites(T, w) ==
    {IF \E x \in w : x.id = t.id
     THEN LET x == CHOOSE y \in w : y.id = t.id
          IN [t EXCEPT !.section_id = x.section_id, !.sort_order = x.sort_order]
     ELSE t : t \in T}

\* transaction.Commit()
BatchCommit(p) ==
    /\ req[p].pc = "bt_commit"
    /\ sections' = ApplySectionWrites(sections, tx[p].wS)
    /\ tasks' = ApplyTaskWrites(tasks, tx[p].wT)
    /\ tx' = [tx EXCEPT ![p] = IdleTx]
    /\ Respond(p, "ok")
    /\ UNCHANGED <<nextSectionId, nextTaskId, pool>>
    /\ UNCHANGED <<auth, boot>>

\* ------------------------------------------- failing statements of the batch
\* transaction.Exec("UPDATE sections SET sort_order ...") returns an error
BatchSectionUpdateFails(p) ==
    /\ req[p].pc = "bt_secupd"
    /\ Rollback(p, "failed_to_update_section_sort")
    /\ UNCHANGED <<db, pool>>
    /\ UNCHANGED <<auth, boot>>

\* transaction.Exec("UPDATE tasks SET section_id ...") returns an error
BatchTaskUpdateFails(p) ==
    /\ req[p].pc = "bt_taskupd"
    /\ Rollback(p, "failed_to_update_task")
    /\ UNCHANGED <<db, pool>>
    /\ UNCHANGED <<auth, boot>>

\* transaction.Commit() returns an error: the server discards the transaction
BatchCommitFails(p) ==
    /\ req[p].pc = "bt_commit"
    /\ tx' = [tx EXCEPT ![p] = IdleTx]
    /\ Respond(p, "transaction_commit_failed")
    /\ UNCHANGED <<db, pool>>
    /\ UNCHANGED <<auth, boot>>

\* ----------------------------------------------------------------- Crash
\* ------------------------------------------------------ JWTAuthMiddleware
\* the clock, in hours
MaxTime == 73

Tick ==
    /\ now < MaxTime
    /\ now' = now + 1
    /\ UNCHANGED <<jwtSecret, http, users, password_resets, boot>>
    /\ UNCHANGED planner

\* variant: the signature is not compared
ParseFailsUnverified(t, s, n) ==
    \/ t.alg = "malformed"
    \/ t.alg # "HS256"
    \/ t.exp # Null /\ ~(n < t.exp)

\* jwt.Parse(tokenString, keyFunc) returns an error or an invalid token: the
\* string is no token, the key function refuses a method that is not HMAC, the
\* signature was not made with []byte(secret), or the exp claim has passed
ParseFails(t, s, n) ==
    \/ t.alg = "malformed"
    \/ t.alg # "HS256"
    \/ t.key # s
    \/ t.exp # Null /\ ~(n < t.exp)

\* the status the middleware aborts with for header h under JWT_SECRET s at
\* time n, or 0 when it calls context.Next()
JWTAuthStatus(h, s, n) ==
    IF h.scheme # "Bearer" THEN 401
    ELSE IF s = "" THEN 500
    ELSE IF ParseFails(h.token, s, n) THEN 401
    ELSE IF ~IsFloat64(h.token.user_id) THEN 401
    ELSE 0

\* a request to a protected route reaches the middleware
JWTAuthMiddleware(p, h) ==
    /\ http[p].pc = "idle"
    /\ LET st == JWTAuthStatus(h, jwtSecret, now) IN
       http' = [http EXCEPT ![p] =
                  [NewHttp EXCEPT
                     !.op = "protected", !.header = h, !.status = st,
                     !.pc = IF st = 0 THEN "next" ELSE "aborted",
                     !.user_id = IF st = 0 THEN Int64(h.token.user_id) ELSE 0]]
    /\ UNCHANGED <<jwtSecret, now, users, password_resets, boot>>
    /\ UNCHANGED planner

\* GET /profile: answers with the user_id of the context
Profile(p) ==
    /\ http[p].pc = "next"
    /\ http' = [http EXCEPT ![p].pc = "done", ![p].status = 200]
    /\ UNCHANGED <<jwtSecret, now, users, password_resets, boot>>
    /\ UNCHANGED planner

\* ------------------------------------------------------------------ Login
\* the lifetime of a JWT, in hours: time.Now().Add(time.Hour * 72)
LoginHours == 72

\* models.GetUserByEmail: SELECT ... FROM users WHERE email = ?
GetUserByEmail(email) == {u \in Users : users[u].email = email}

\* POST /login with the e-mail address and the password of the body
Login(p, email, pw) ==
    /\ http[p].pc = "idle"
    /\ LET found == GetUserByEmail(email) IN
       IF found = {} \/ \A u \in found : ~CompareHashAndPassword(users[u].password_hash, pw)
       THEN http' = [http EXCEPT ![p] =
                       [NewHttp EXCEPT !.op = "Login", !.pc = "done", !.status = 401]]
       ELSE \E u \in found :
               LET secret == IF jwtSecret = "" THEN DefaultSecret ELSE jwtSecret IN
               http' = [http EXCEPT ![p] =
                          [NewHttp EXCEPT
                             !.op = "Login", !.pc = "done", !.status = 200,
                             !.token = SignedString("HS256", secret, Number(2 * u),
                                                    now + LoginHours)]]
    /\ UNCHANGED <<jwtSecret, now, users, password_resets, boot>>
    /\ UNCHANGED planner
\* --------------------------------------------- ForgotPassword, ResetPassword
\* the lifetime of a reset token, in hours: time.Now().Add(time.Hour * 1)
ResetHours == 1

\* a request is between two of its statements
Busy(p) == http[p].pc \notin {"idle", "done", "aborted"}

\* generateResetToken: 32 random bytes, a value no row holds yet
FreshResetToken == Cardinality(password_resets) + 1

\* POST /forgot-password: models.GetUserByEmail
ForgotPasswordUser(p, email) ==
    /\ ~Busy(p)
    /\ LET found == GetUserByEmail(email) IN
       IF found = {}
       THEN http' = [http EXCEPT ![p] =
                       [NewHttp EXCEPT !.op = "ForgotPassword", !.pc = "done", !.status = 404]]
       ELSE \E u \in found :
               http' = [http EXCEPT ![p] =
                          [NewHttp EXCEPT !.op = "ForgotPassword", !.pc = "fp_create",
                                           !.target = u]]
    /\ UNCHANGED <<jwtSecret, now, users, password_resets, boot>>
    /\ UNCHANGED planner

\* models.CreatePasswordReset: INSERT INTO password_resets (user_id, token, expires_at),
\* then emailService.SendPasswordResetEmail, which succeeds or fails
ForgotPasswordCreate(p) ==
    /\ http[p].pc = "fp_create"
    /\ password_resets' = password_resets \cup
          {[token |-> FreshResetToken, user_id |-> http[p].target,
            expires_at |-> now + ResetHours, used |-> FALSE]}
    /\ \E sent \in BOOLEAN :
          http' = [http EXCEPT ![p].pc = "done",
                               ![p].reset = FreshResetToken,
                               ![p].status = IF sent THEN 200 ELSE 500]
    /\ UNCHANGED <<jwtSecret, now, users, boot>>
    /\ UNCHANGED planner

\* variant: the SELECT has no "AND used = FALSE"
GetPasswordResetByTokenAnyUse(token) ==
    {r \in password_resets : r.token = token /\ r.expires_at > now}

\* models.GetPasswordResetByToken: SELECT ... FROM password_resets
\*   WHERE token = ? AND used = FALSE AND expires_at > NOW()
GetPasswordResetByToken(token) ==
    {r \in password_resets : r.token = token /\ ~r.used /\ r.expires_at > now}

\* POST /reset-password with the token and the new password of the body: the lookup
ResetPasswordLookup(p, token, pw) ==
    /\ ~Busy(p)
    /\ LET found == GetPasswordResetByToken(token) IN
       IF found = {}
       THEN http' = [http EXCEPT ![p] =
                       [NewHttp EXCEPT !.op = "ResetPassword", !.pc = "done",
                                        !.status = 404, !.reset = token, !.password = pw]]
       ELSE \E r \in found :
               http' = [http EXCEPT ![p] =
                          [NewHttp EXCEPT !.op = "ResetPassword", !.pc = "rp_hash",
                                           !.reset = token, !.password = pw,
                                           !.target = r.user_id]]
    /\ UNCHANGED <<jwtSecret, now, users, password_resets, boot>>
    /\ UNCHANGED planner

\* bcrypt.GenerateFromPassword([]byte(input.NewPassword), bcrypt.DefaultCost)
ResetPasswordHash(p) ==
    /\ http[p].pc = "rp_hash"
    /\ http' = [http EXCEPT ![p].pc = "rp_update",
                            ![p].hashed = GenerateFromPassword(http[p].password)]
    /\ UNCHANGED <<jwtSecret, now, users, password_resets, boot>>
    /\ UNCHANGED planner

\* models.UpdateUserPassword(database, passwordReset.UserID, string(hashed)): the
\* function is not among the sources; it is taken to store the hash in the
\* row of that user
ResetPasswordUpdate(p) ==
    /\ http[p].pc = "rp_update"
    /\ users' = [users EXCEPT ![http[p].target].password_hash = http[p].hashed]
    /\ http' = [http EXCEPT ![p].pc = "rp_mark"]
    /\ UNCHANGED <<jwtSecret, now, password_resets, boot>>
    /\ UNCHANGED planner

\* models.MarkPasswordResetAsUsed: UPDATE password_resets SET used = TRUE WHERE token = ?
ResetPasswordMark(p) ==
    /\ http[p].pc = "rp_mark"
    /\ password_resets' =
          {IF r.token = http[p].reset THEN [r EXCEPT !.used = TRUE] ELSE r
           : r \in password_resets}
    /\ http' = [http EXCEPT ![p].pc = "done", ![p].status = 200]
    /\ UNCHANGED <<jwtSecret, now, users, boot>>
    /\ UNCHANGED planner

\* the hashing, the password UPDATE or the mark-used UPDATE returns an error:
\* 500 "Password hash failed", "Failed to update password",
\* "Failed to mark token as used"
ResetPasswordFails(p) ==
    /\ http[p].pc \in {"rp_hash", "rp_update", "rp_mark"}
    /\ http' = [http EXCEPT ![p].pc = "done", ![p].status = 500]
    /\ UNCHANGED <<jwtSecret, now, users, password_resets, boot>>
    /\ UNCHANGED planner
\* the token strings a caller can present
Tokens ==
    {SignedString(a, k, u, e) :
        a \in {"HS256", "RS256"}, k \in {"configured", DefaultSecret, ForeignKey},
        u \in UserIdClaims, e \in {Null, MaxTime - 1}}
        \cup {Malformed}

Headers == {NoHeader, BasicHeader} \cup {Bearer(t) : t \in Tokens}

\* the server process dies while request p is in flight: the request never
\* resumes, and the restarted process opens a fresh pool (db.Ping in main)
Crash(p) ==
    /\ InFlight(p)
    /\ req' = [req EXCEPT ![p].pc = "done", ![p].resp = "crashed"]
    /\ rank' = [c \in Conns |-> Null]
    /\ opened' = {1}
    /\ tx' = [tx EXCEPT ![p] = IdleTx]
    /\ UNCHANGED db
    /\ UNCHANGED <<auth, boot>>

\* ------------------------------------------------- sequential requests
\* one request at a time, each run to completion
SeqProc == CHOOSE p \in Procs : \A q \in Procs : p <= q

StepSeq ==
    \/ \E u \in Users : CreateSectionSelectMax(SeqProc, u, SomeTitle)
    \/ CreateSectionInsert(SeqProc)
    \/ \E u \in Users, sid \in SectionIds : DeleteSectionExists(SeqProc, u, sid)
    \/ DeleteSectionDelete(SeqProc)
    \/ DeleteSectionSetRank(SeqProc)
    \/ DeleteSectionUpdate(SeqProc)
    \/ \E u \in Users, sid \in SectionIds : CreateTaskOwner(SeqProc, u, sid)
    \/ CreateTaskSelectMax(SeqProc)
    \/ CreateTaskInsert(SeqProc)
    \/ \E u \in Users, tid \in TaskIds : DeleteTaskJoin(SeqProc, u, tid)
    \/ DeleteTaskDelete(SeqProc)
    \/ DeleteTaskUpdate(SeqProc)

NextSeq == StepSeq

SpecSeq == Init /\ [][NextSeq]_vars

\* sequential requests, any of which may be cut short by a crash
NextCrash ==
    \/ StepSeq
    \/ Crash(SeqProc)

SpecCrash == Init /\ [][NextCrash]_vars

\* ------------------------------------------------- concurrent requests
\* Each process serves one request; the steps of the requests interleave in
\* any order.  The tables start dense: one user's section holding OldCount
\* tasks (or no section at all).
MaxOldCount == 2

DenseStart(n) ==
    /\ sections = {[id |-> 1, user_id |-> 1, sort_order |-> 1, title |-> SomeTitle]}
    /\ tasks = {[id |-> i, section_id |-> 1, user_id |-> 1, sort_order |-> i,
                 title |-> SomeTitle, content |-> SomeTitle, is_completed |-> FALSE]
                : i \in 1..n}
    /\ nextSectionId = 2
    /\ nextTaskId = n + 1

InitRace ==
    /\ \/ \E n \in 0..MaxOldCount : DenseStart(n)
       \/ sections = {} /\ tasks = {} /\ nextSectionId = 1 /\ nextTaskId = 1
    /\ rank = [c \in Conns |-> Null]
    /\ opened = {1}
    /\ req = [p \in Procs |-> IdleReq]
    /\ tx = [p \in Procs |-> IdleTx]
    /\ PlannerOnly

NextRace ==
    \E p \in Procs :
        \/ req[p].pc = "idle" /\ \E u \in Users : CreateSectionSelectMax(p, u, SomeTitle)
        \/ CreateSectionInsert(p)
        \/ req[p].pc = "idle" /\ \E u \in Users, sid \in SectionIds : DeleteSectionExists(p, u, sid)
        \/ DeleteSectionDelete(p)
        \/ DeleteSectionSetRank(p)
        \/ DeleteSectionUpdate(p)
        \/ req[p].pc = "idle" /\ \E u \in Users, sid \in SectionIds : CreateTaskOwner(p, u, sid)
        \/ CreateTaskSelectMax(p)
        \/ CreateTaskInsert(p)
        \/ req[p].pc = "idle" /\ \E u \in Users, tid \in TaskIds : DeleteTaskJoin(p, u, tid)
        \/ DeleteTaskDelete(p)
        \/ DeleteTaskUpdate(p)

SpecRace == InitRace /\ [][NextRace]_vars

\* ------------------------------------------------------- one batch reorder
\* ------------------------------------------- one request to a protected route
\* Under either setting of JWT_SECRET, one request with any header goes through
\* the middleware and, when that calls Next, through Profile, GetSections or
\* CreateSection with the user_id of the context; the clock advances.
InitAuth ==
    /\ sections = {}
    /\ tasks = {}
    /\ nextSectionId = 1
    /\ nextTaskId = 1
    /\ rank = [c \in Conns |-> Null]
    /\ opened = {1}
    /\ req = [p \in Procs |-> IdleReq]
    /\ tx = [p \in Procs |-> IdleTx]
    /\ jwtSecret \in Secrets
    /\ now = 0
    /\ http = [p \in Procs |-> IdleHttp]
    /\ users = UsersStart
    /\ password_resets = {}
    /\ boot = Serving

NextAuth ==
    \/ Tick
    \/ \E h \in Headers : JWTAuthMiddleware(SeqProc, h)
    \/ req[SeqProc].pc = "idle" /\ Profile(SeqProc)
    \/ http[SeqProc].pc = "next" /\ req[SeqProc].pc = "idle"
          /\ GetSections(SeqProc, http[SeqProc].user_id)
    \/ http[SeqProc].pc = "next" /\ req[SeqProc].pc = "idle"
          /\ CreateSectionSelectMax(SeqProc, http[SeqProc].user_id, SomeTitle)
    \/ CreateSectionInsert(SeqProc)

SpecAuth == InitAuth /\ [][NextAuth]_vars

\* --------------------- one batch reorder beside one create or delete of a task
\* ------------------------------------- logins and requests with their tokens
\* Under either setting of JWT_SECRET, every process serves one Login, or one
\* request to /profile that presents the token a Login has returned; the clock
\* advances.  Logins start while their token's exp is within the clock's range.
NextLogin ==
    \/ Tick
    \/ \E p \in Procs :
          \/ now + LoginHours <= MaxTime
                /\ \E email \in Users \cup {0}, pw \in Passwords : Login(p, email, pw)
          \/ \E q \in Procs :
                /\ http[q].op = "Login" /\ http[q].status = 200
                /\ JWTAuthMiddleware(p, Bearer(http[q].token))
          \/ Profile(p)

SpecLogin == InitAuth /\ [][NextLogin]_vars
\* --------------------------------------------------- password reset requests
\* the reset tokens issued in one behaviour
MaxResets == 1

\* a token string that was never issued
UnknownResetToken == 0

\* The requests of the password reset flow, with any e-mail address, token and
\* new password, each statement succeeding or failing; the clock runs past the
\* expiry of the tokens.
ResetStep(p) ==
    \/ Cardinality(password_resets) < MaxResets
          /\ \E email \in Users \cup {0} : ForgotPasswordUser(p, email)
    \/ ForgotPasswordCreate(p)
    \/ \E token \in (1..MaxResets) \cup {UnknownResetToken}, pw \in Passwords :
          ResetPasswordLookup(p, token, pw)
    \/ ResetPasswordHash(p)
    \/ ResetPasswordUpdate(p)
    \/ ResetPasswordMark(p)
    \/ ResetPasswordFails(p)

\* one request at a time
NextReset ==
    \/ now <= ResetHours /\ Tick
    \/ ResetStep(SeqProc)

SpecReset == InitAuth /\ [][NextReset]_vars

\* every process serves requests, their statements interleaving in any order
NextResetRace ==
    \/ now <= ResetHours /\ Tick
    \/ \E p \in Procs : ResetStep(p)

SpecResetRace == InitAuth /\ [][NextResetRace]_vars
\* ----------------------------------------------------------- main's startup
\* maxRetries := 10
MaxRetries == 10

\* variant: the loop is left whatever db.Ping() returns
PingBreaksEitherWay ==
    /\ boot.pc = "ping"
    /\ \E ok \in BOOLEAN :
          boot' = [boot EXCEPT !.pings = boot.pings + 1,
                               !.connected = ok,
                               !.pc = "serving"]
    /\ UNCHANGED auth
    /\ UNCHANGED planner

\* if err := db.Ping(); err == nil { break } else { ... }: the ping succeeds and
\* main goes on to register the routes and to r.Run, or it fails
Ping ==
    /\ boot.pc = "ping"
    /\ \E ok \in BOOLEAN :
          boot' = [boot EXCEPT !.pings = boot.pings + 1,
                               !.connected = ok,
                               !.pc = IF ok THEN "serving" ELSE "sleep"]
    /\ UNCHANGED auth
    /\ UNCHANGED planner

\* time.Sleep(2 * time.Second); if i == maxRetries { log.Fatal(...) }; i++
Sleep ==
    /\ boot.pc = "sleep"
    /\ boot' = IF boot.attempt = MaxRetries
               THEN [boot EXCEPT !.pc = "fatal"]
               ELSE [boot EXCEPT !.pc = "ping", !.attempt = boot.attempt + 1]
    /\ UNCHANGED auth
    /\ UNCHANGED planner

\* main from its first ping on; once r.Run is reached, requests are served
InitBoot ==
    /\ sections = {}
    /\ tasks = {}
    /\ nextSectionId = 1
    /\ nextTaskId = 1
    /\ rank = [c \in Conns |-> Null]
    /\ opened = {1}
    /\ req = [p \in Procs |-> IdleReq]
    /\ tx = [p \in Procs |-> IdleTx]
    /\ jwtSecret = "configured"
    /\ now = 0
    /\ http = [p \in Procs |-> IdleHttp]
    /\ users = UsersStart
    /\ password_resets = {}
    /\ boot = [pc |-> "ping", attempt |-> 1, pings |-> 0, connected |-> FALSE]

NextBoot ==
    \/ Ping
    \/ Sleep
    \/ boot.pc = "serving" /\ nextSectionId <= MaxSectionId
          /\ \E u \in Users : CreateSectionSelectMax(SeqProc, u, SomeTitle)
    \/ boot.pc = "serving" /\ CreateSectionInsert(SeqProc)
    \/ boot.pc = "serving" /\ \E u \in Users : GetSections(SeqProc, u)

\* main keeps running: db.Ping() and time.Sleep return
SpecBoot == InitBoot /\ [][NextBoot]_vars /\ WF_vars(Ping) /\ WF_vars(Sleep)
\* From the dense start of the concurrent requests, the first process serves
\* one batch reorder and every other process one CreateTask or DeleteTask; the
\* statements of the requests interleave in any order the row locks allow.
NextBatchRace ==
    \/ req[SeqProc].pc = "idle" /\ \E u \in Users, pl \in Payloads : BatchBegin(SeqProc, u, pl)
    \/ BatchSectionOwner(SeqProc)
    \/ BatchSectionUpdate(SeqProc)
    \/ BatchTaskSelect(SeqProc)
    \/ BatchTaskUpdate(SeqProc)
    \/ BatchCommit(SeqProc)
    \/ \E p \in Procs \ {SeqProc} :
          \/ req[p].pc = "idle"
                /\ \E u \in Users, sid \in SectionIds : CreateTaskOwner(p, u, sid)
          \/ CreateTaskSelectMax(p)
          \/ CreateTaskInsert(p)
          \/ req[p].pc = "idle" /\ \E u \in Users, tid \in TaskIds : DeleteTaskJoin(p, u, tid)
          \/ DeleteTaskDelete(p)
          \/ DeleteTaskUpdate(p)

SpecBatchRace == InitRace /\ [][NextBatchRace]_vars
\* ------------------------------ concurrent DeleteSection requests on the pool
\* Two users own MaxSectionId sections each, at the ranks 1..MaxSectionId;
\* every process serves one DeleteSection and the statements of the requests
\* interleave on the pooled sessions.
RankSectionIds == 1..(2 * MaxSectionId)

InitRank ==
    /\ sections = {[id |-> i, user_id |-> IF i <= MaxSectionId THEN 1 ELSE 2,
                    sort_order |-> IF i <= MaxSectionId THEN i ELSE i - MaxSectionId,
                    title |-> SomeTitle] : i \in RankSectionIds}
    /\ tasks = {}
    /\ nextSectionId = 2 * MaxSectionId + 1
    /\ nextTaskId = 1
    /\ rank = [c \in Conns |-> Null]
    /\ opened = {1}
    /\ req = [p \in Procs |-> IdleReq]
    /\ tx = [p \in Procs |-> IdleTx]
    /\ PlannerOnly

NextRank ==
    \E p \in Procs :
        \/ req[p].pc = "idle"
              /\ \E u \in Users, sid \in RankSectionIds : DeleteSectionExists(p, u, sid)
        \/ DeleteSectionDelete(p)
        \/ DeleteSectionSetRank(p)
        \/ DeleteSectionUpdate(p)

SpecRank == InitRank /\ [][NextRank]_vars
\* A populated dense start, as left by CreateSection and CreateTask requests:
\* section sid was created by user own[sid], task tid into section a[tid], in
\* the order of their ids.
PopulatedStart(own, a) ==
    /\ sections = {[id |-> sid, user_id |-> own[sid],
                    sort_order |-> Cardinality({o \in 1..sid : own[o] = own[sid]}),
                    title |-> SomeTitle]
                   : sid \in SectionIds}
    /\ tasks = {[id |-> tid, section_id |-> a[tid], user_id |-> own[a[tid]],
                 sort_order |-> Cardinality({o \in 1..tid : a[o] = a[tid]}),
                 title |-> SomeTitle, content |-> SomeTitle, is_completed |-> FALSE]
                : tid \in TaskIds}
    /\ nextSectionId = MaxSectionId + 1
    /\ nextTaskId = MaxTaskId + 1

InitBatch ==
    /\ \E own \in [SectionIds -> Users], a \in [TaskIds -> SectionIds] : PopulatedStart(own, a)
    /\ rank = [c \in Conns |-> Null]
    /\ opened = {1}
    /\ req = [p \in Procs |-> IdleReq]
    /\ tx = [p \in Procs |-> IdleTx]
    /\ PlannerOnly

NextBatch ==
    \/ req[SeqProc].pc = "idle" /\ \E u \in Users, pl \in Payloads : BatchBegin(SeqProc, u, pl)
    \/ BatchSectionOwner(SeqProc)
    \/ BatchSectionUpdate(SeqProc)
    \/ BatchTaskSelect(SeqProc)
    \/ BatchTaskUpdate(SeqProc)
    \/ BatchCommit(SeqProc)

SpecBatch == InitBatch /\ [][NextBatch]_vars

\* ------------------------------- one batch reorder, statements may fail
\* A partly populated dense start: sections 1..n were created (by the users
\* own[1..n], numbered in the order of their first request), tasks 1..m were
\* created, the first k of them (all, or all but the last) in section 1 and
\* the others in section n; the higher ids were never handed out.
PartialStart(n, own, m, k) ==
    /\ sections = {[id |-> sid, user_id |-> own[sid],
                    sort_order |-> Cardinality({o \in 1..sid : own[o] = own[sid]}),
                    title |-> SomeTitle]
                   : sid \in 1..n}
    /\ tasks = {[id |-> tid,
                 section_id |-> IF tid <= k THEN 1 ELSE n,
                 user_id |-> own[IF tid <= k THEN 1 ELSE n],
                 sort_order |-> IF tid <= k \/ n = 1 THEN tid ELSE tid - k,
                 title |-> SomeTitle, content |-> SomeTitle, is_completed |-> FALSE]
                : tid \in 1..m}
    /\ nextSectionId = n + 1
    /\ nextTaskId = m + 1

InitReorder ==
    /\ \E n \in 0..MaxSectionId : \E own \in [1..n -> Users] :
          /\ \A sid \in 1..n : own[sid] <= 1 + Cardinality({own[o] : o \in 1..(sid - 1)})
          /\ \E m \in 0..(IF n = 0 THEN 0 ELSE MaxTaskId) : \E k \in {m, m - 1} \cap 0..m :
                PartialStart(n, own, m, k)
    /\ rank = [c \in Conns |-> Null]
    /\ opened = {1}
    /\ req = [p \in Procs |-> IdleReq]
    /\ tx = [p \in Procs |-> IdleTx]
    /\ PlannerOnly

NextReorder ==
    \/ req[SeqProc].pc = "idle" /\ \E u \in Users, pl \in Payloads : BatchBegin(SeqProc, u, pl)
    \/ BatchSectionOwner(SeqProc)
    \/ BatchSectionUpdate(SeqProc)
    \/ BatchSectionUpdateFails(SeqProc)
    \/ BatchTaskSelect(SeqProc)
    \/ BatchTaskUpdate(SeqProc)
    \/ BatchTaskUpdateFails(SeqProc)
    \/ BatchCommit(SeqProc)
    \/ BatchCommitFails(SeqProc)

SpecReorder == InitReorder /\ [][NextReorder]_vars

\* --------------- one create-section, update or delete request, statements may fail
\* From a partly populated dense start, one request of any user naming any id.
NextGuard ==
    \/ req[SeqProc].pc = "idle"
          /\ \E u \in Users, title \in StringInputs : CreateSectionInvalid(SeqProc, u, title)
    \/ req[SeqProc].pc = "idle"
          /\ \E u \in Users, title \in StringInputs : CreateSectionSelectMax(SeqProc, u, title)
    \/ CreateSectionInsert(SeqProc)
    \/ req[SeqProc].pc = "idle"
          /\ \E u \in Users, sid \in SectionIds : UpdateSectionExists(SeqProc, u, sid)
    \/ UpdateSectionUpdate(SeqProc)
    \/ UpdateSectionUpdateFails(SeqProc)
    \/ req[SeqProc].pc = "idle"
          /\ \E u \in Users, sid \in SectionIds : DeleteSectionExists(SeqProc, u, sid)
    \/ DeleteSectionDelete(SeqProc)
    \/ DeleteSectionDeleteFails(SeqProc)
    \/ DeleteSectionSetRank(SeqProc)
    \/ DeleteSectionSetRankFails(SeqProc)
    \/ DeleteSectionUpdate(SeqProc)
    \/ DeleteSectionUpdateFails(SeqProc)
    \/ req[SeqProc].pc = "idle"
          /\ \E u \in Users, tid \in TaskIds : UpdateTaskOwner(SeqProc, u, tid)
    \/ UpdateTaskUpdate(SeqProc)
    \/ UpdateTaskUpdateFails(SeqProc)
    \/ req[SeqProc].pc = "idle"
          /\ \E u \in Users, tid \in TaskIds : DeleteTaskJoin(SeqProc, u, tid)
    \/ DeleteTaskDelete(SeqProc)
    \/ DeleteTaskUpdate(SeqProc)

SpecGuard == InitReorder /\ [][NextGuard]_vars

\* ------------------------------------------------------ one delete request
\* ------------------------------- one batch reorder, then one task request
\* From a partly populated dense start, one batch reorder of any user and,
\* once it has answered, one UpdateTask or DeleteTask of any user.
NextThenTask ==
    \/ req[SeqProc].pc = "idle" /\ \E u \in Users, pl \in Payloads : BatchBegin(SeqProc, u, pl)
    \/ BatchSectionOwner(SeqProc)
    \/ BatchSectionUpdate(SeqProc)
    \/ BatchTaskSelect(SeqProc)
    \/ BatchTaskUpdate(SeqProc)
    \/ BatchCommit(SeqProc)
    \/ req[SeqProc].pc = "done" /\ req[SeqProc].op = BatchOp
          /\ \E u \in Users, tid \in TaskIds : UpdateTaskOwner(SeqProc, u, tid)
    \/ UpdateTaskUpdate(SeqProc)
    \/ req[SeqProc].pc = "done" /\ req[SeqProc].op = BatchOp
          /\ \E u \in Users, tid \in TaskIds : DeleteTaskJoin(SeqProc, u, tid)
    \/ DeleteTaskDelete(SeqProc)
    \/ DeleteTaskUpdate(SeqProc)

SpecThenTask == InitReorder /\ [][NextThenTask]_vars
\* A delete request whose ownership check has just passed, on dense tables
\* whose order is any arrangement batch reorders can have left.
DenseTaskTables ==
    {T \in [TaskIds -> [section_id : SectionIds, sort_order : TaskIds]] :
        \A sid \in SectionIds :
            {T[t].sort_order : t \in {x \in TaskIds : T[x].section_id = sid}}
                = 1..Cardinality({x \in TaskIds : T[x].section_id = sid})}

DenseSectionTables ==
    {S \in [SectionIds -> [user_id : Users, sort_order : SectionIds]] :
        \A u \in Users :
            {S[sid].sort_order : sid \in {x \in SectionIds : S[x].user_id = u}}
                = 1..Cardinality({x \in SectionIds : S[x].user_id = u})}

\* ------------------------------------------------------- one read request
\* On dense tables in any arrangement, one GetSections or GetSectionsWithTasks
\* of any user.
InitRead ==
    /\ \E T \in DenseTaskTables, S \in DenseSectionTables :
          /\ sections = {[id |-> sid, user_id |-> S[sid].user_id,
                          sort_order |-> S[sid].sort_order,
                          title |-> SomeTitle] : sid \in SectionIds}
          /\ tasks = {[id |-> tid, section_id |-> T[tid].section_id,
                       user_id |-> S[T[tid].section_id].user_id,
                       sort_order |-> T[tid].sort_order,
                       title |-> SomeTitle, content |-> SomeTitle,
                       is_completed |-> FALSE] : tid \in TaskIds}
    /\ nextSectionId = MaxSectionId + 1
    /\ nextTaskId = MaxTaskId + 1
    /\ rank = [c \in Conns |-> Null]
    /\ opened = {1}
    /\ req = [p \in Procs |-> IdleReq]
    /\ tx = [p \in Procs |-> IdleTx]
    /\ PlannerOnly

NextRead ==
    \/ req[SeqProc].pc = "idle" /\ \E u \in Users : GetSections(SeqProc, u)
    \/ req[SeqProc].pc = "idle" /\ \E u \in Users : GetSectionsWithTasksSections(SeqProc, u)
    \/ GetSectionsWithTasksTasks(SeqProc)

SpecRead == InitRead /\ [][NextRead]_vars
InitDelete ==
    /\ \E T \in DenseTaskTables, S \in DenseSectionTables :
          /\ sections = {[id |-> sid, user_id |-> S[sid].user_id,
                          sort_order |-> S[sid].sort_order,
                          title |-> SomeTitle] : sid \in SectionIds}
          /\ tasks = {[id |-> tid, section_id |-> T[tid].section_id,
                       user_id |-> S[T[tid].section_id].user_id,
                       sort_order |-> T[tid].sort_order,
                       title |-> SomeTitle, content |-> SomeTitle,
                       is_completed |-> FALSE] : tid \in TaskIds}
    /\ \/ \E t \in tasks :
            req = [p \in Procs |-> IF p = SeqProc
                     THEN [NewReq("DeleteTask", t.user_id, t.id) EXCEPT
                             !.pc = "dt_delete", !.section = t.section_id]
                     ELSE IdleReq]
       \/ \E s \in sections :
            req = [p \in Procs |-> IF p = SeqProc
                     THEN [NewReq("DeleteSection", s.user_id, s.id) EXCEPT
                             !.pc = "ds_delete"]
                     ELSE IdleReq]
    /\ nextSectionId = MaxSectionId + 1
    /\ nextTaskId = MaxTaskId + 1
    /\ rank = [c \in Conns |-> Null]
    /\ opened = {1}
    /\ tx = [p \in Procs |-> IdleTx]
    /\ PlannerOnly

NextDelete ==
    \/ DeleteTaskDelete(SeqProc)
    \/ DeleteTaskUpdate(SeqProc)
    \/ DeleteSectionDelete(SeqProc)
    \/ DeleteSectionSetRank(SeqProc)
    \/ DeleteSectionUpdate(SeqProc)

SpecDelete == InitDelete /\ [][NextDelete]_vars

\* ----------------------------------------------------------- properties
SectionsIn(S, u) == {s \in S : s.user_id = u}
TasksIn(T, sid) == {t \in T : t.section_id = sid}

DenseSections(u) ==
    {s.sort_order : s \in SectionsOf(u)} = 1..Cardinality(SectionsOf(u))

DenseTasksIn(T, sid) ==
    {t.sort_order : t \in TasksIn(T, sid)} = 1..Cardinality(TasksIn(T, sid))

DenseTasks(sid) == DenseTasksIn(tasks, sid)

\* C1: whenever no request is in flight, every user's section sort_order
\* values are exactly 1..N, N the number of that user's sections.
C1_SectionDensity ==
    Settled => \A u \in Users : DenseSections(u)

\* a DeleteSection that had to renumber a later section has completed
C1_Witness ==
    /\ req[SeqProc].op = "DeleteSection" /\ req[SeqProc].resp = "ok"
    /\ req[SeqProc].pc = "done"
    /\ \E s \in SectionsOf(req[SeqProc].user) : s.id > req[SeqProc].id /\ s.sort_order = 1

\* C2: whenever no request is in flight, every section's task sort_order
\* values are exactly 1..M, M the number of tasks of that section.
C2_TaskDensity ==
    Settled => \A sid \in SectionIds : DenseTasks(sid)

\* a DeleteTask that had to renumber a later task has completed
C2_Witness ==
    /\ req[SeqProc].op = "DeleteTask" /\ req[SeqProc].resp = "ok"
    /\ \E t \in TasksOf(req[SeqProc].section) : t.id > req[SeqProc].id
    /\ \E sid \in SectionIds : sid # req[SeqProc].section /\ TasksOf(sid) # {}

\* the N = MaxProcs requests all were CreateTask on section sid and succeeded
AllCreatedTaskIn(sid) ==
    \A p \in Procs : /\ req[p].op = "CreateTask" /\ req[p].pc = "done"
                     /\ req[p].resp = "ok" /\ req[p].section = sid

\* C3: N concurrent CreateTask requests on one section hand out N distinct
\* sort_order values, exactly old_count+1 .. old_count+N.
C3_ConcurrentCreateTaskDistinct ==
    \A sid \in SectionIds :
        AllCreatedTaskIn(sid) =>
            LET count == Cardinality(TasksOf(sid))
                created == {t \in tasks : \E p \in Procs : req[p].id = t.id}
            IN {t.sort_order : t \in created} = (count - MaxProcs + 1)..count

\* C4: two CreateSection requests of one user never insert two sections
\* with the same sort_order, however their SELECT MAX and INSERT interleave.
C4_ConcurrentCreateSectionDistinct ==
    \A p, q \in Procs :
        (/\ p # q
         /\ req[p].op = "CreateSection" /\ req[p].pc = "done" /\ req[p].resp = "ok"
         /\ req[q].op = "CreateSection" /\ req[q].pc = "done" /\ req[q].resp = "ok"
         /\ req[p].user = req[q].user)
        => \A a, b \in sections :
              (a.id = req[p].id /\ b.id = req[q].id) => a.sort_order # b.sort_order

\* C5: once a CreateTask and a DeleteTask (or DeleteTask requests only) on the
\* same section have all finished, whatever the interleaving of their steps,
\* the section's ranks are 1..count as after a serial execution.
C5_SameScopeSerialize ==
    \A sid \in SectionIds :
        (/\ \A p \in Procs : /\ req[p].op \in {"CreateTask", "DeleteTask"}
                             /\ req[p].pc = "done" /\ req[p].resp = "ok"
                             /\ req[p].section = sid
         /\ \E p \in Procs : req[p].op = "DeleteTask")
        => DenseTasks(sid)

\* C6: a delete request interrupted after its DELETE statement leaves no gap
\* behind: the scope it worked on is 1..count in the persisted state.
C6_DeleteAtomicWithCompaction ==
    \A p \in Procs :
        (req[p].pc = "done" /\ req[p].resp = "crashed") =>
            /\ req[p].op = "DeleteSection" => DenseSections(req[p].user)
            /\ req[p].op = "DeleteTask" => DenseTasks(req[p].section)

\* a precedes b in T by sort_order
Before(T, a, b) ==
    \E x, y \in T : x.id = a /\ y.id = b /\ x.sort_order < y.sort_order

\* C7: DeleteTask on a dense section removes exactly the named task without
\* touching the others, and its renumbering leaves the remaining tasks
\* numbered 1..count in the same relative order as before.
C7_CompactionPreservesOrder ==
    [][\A p \in Procs :
        LET sid == req[p].section IN
        /\ (req[p].pc = "dt_delete" /\ req'[p].pc = "dt_update" /\ DenseTasksIn(tasks, sid))
              => tasks' = {t \in tasks : t.id # req[p].id}
        /\ (req[p].pc = "dt_update" /\ req'[p].pc = "done")
              => /\ DenseTasksIn(tasks', sid)
                 /\ {t.id : t \in TasksIn(tasks', sid)} = {t.id : t \in TasksIn(tasks, sid)}
                 /\ \A a, b \in TaskIds :
                       Before(TasksIn(tasks, sid), a, b) <=> Before(TasksIn(tasks', sid), a, b)
      ]_vars

\* the deleted task ranked first of two: the other one is now alone at rank 1
C7_Witness ==
    /\ req[SeqProc].op = "DeleteTask" /\ req[SeqProc].pc = "done" /\ req[SeqProc].resp = "ok"
    /\ \E t \in tasks : /\ TasksOf(req[SeqProc].section) = {t}
                        /\ t.sort_order = 1 /\ t.id > req[SeqProc].id

\* n is the next rank of a scope whose members have the ranks R
IsNextRank(n, R) == IF R = {} THEN n = 1 ELSE (n - 1) \in R /\ \A x \in R : x < n

\* C9: the row inserted by CreateSection (CreateTask) has sort_order 1 when the
\* caller's sections (the target section's tasks) are empty, else their maximum
\* sort_order plus one; rows of other scopes play no part.
C9_NextRank ==
    [][\A p \in Procs :
        /\ (req[p].pc = "cs_insert" /\ req'[p].pc = "done")
              => \E r \in sections' \ sections :
                    /\ r.user_id = req[p].user /\ r.id = req'[p].id
                    /\ IsNextRank(r.sort_order, {s.sort_order : s \in SectionsOf(req[p].user)})
        /\ (req[p].pc = "ct_insert" /\ req'[p].resp = "ok")
              => \E r \in tasks' \ tasks :
                    /\ r.section_id = req[p].section /\ r.id = req'[p].id
                    /\ IsNextRank(r.sort_order, {t.sort_order : t \in TasksOf(req[p].section)})
      ]_vars

\* a task was created at rank 1 in one section while another section holds rank 2
C9_Witness ==
    /\ req[SeqProc].op = "CreateTask" /\ req[SeqProc].pc = "done" /\ req[SeqProc].resp = "ok"
    /\ \E t, o \in tasks : /\ t.id = req[SeqProc].id /\ t.sort_order = 1
                           /\ o.section_id # t.section_id /\ o.sort_order = 2
    /\ \E u \in Users : Cardinality(SectionsOf(u)) = 2

Incomplete(p) ==
    LET pl == tx[p].payload IN
    /\ Len(pl) > 0
    /\ \/ \E k \in 1..Len(pl) : \E t \in TasksOf(pl[k].id) :
             \A m \in 1..Len(pl[k].tasks) : pl[k].tasks[m] # t.id
       \/ \E s \in SectionsOf(req[p].user) : \A k \in 1..Len(pl) : pl[k].id # s.id

\* C10: a batch reorder whose payload omits an existing task of a listed
\* section, or one of the caller's sections, is rejected and changes no
\* sort_order and no section_id.
C10_BatchCompletenessRejection ==
    [][\A p \in Procs :
        (req[p].op = BatchOp /\ InFlight(p) /\ Incomplete(p))
            => /\ sections' = sections /\ tasks' = tasks
               /\ req'[p].pc = "done" => req'[p].resp # "ok"
      ]_vars

\* the owner of the section that task t is stored in
SectionOwner(t) == (CHOOSE s \in sections : s.id = t.section_id).user_id

\* the payload of p's batch lists task tid under one of its sections
Lists(p, tid) ==
    \E k \in 1..Len(tx[p].payload) :
        \E m \in 1..Len(tx[p].payload[k].tasks) : tx[p].payload[k].tasks[m] = tid

\* C11: a batch reorder of user U that lists a task stored in a section of
\* another user is rejected, and no step of U's request changes the section_id
\* or the sort_order of a task stored in another user's section.
C11_BatchNeverTouchesForeignTasks ==
    [][\A p \in Procs :
        (req[p].op = BatchOp /\ InFlight(p))
            => \A t \in tasks :
                  SectionOwner(t) # req[p].user
                     => /\ t \in tasks'
                        /\ (Lists(p, t.id) /\ req'[p].pc = "done") => req'[p].resp # "ok"
      ]_vars
\* the section listed at position k of p's payload is not a section of the caller
BadSectionAt(p, k) ==
    ~\E s \in sections : s.id = tx[p].payload[k].id /\ s.user_id = req[p].user

HasBadSection(p) == \E k \in 1..Len(tx[p].payload) : BadSectionAt(p, k)

\* the task listed at position m of section k of p's payload does not exist
MissingTaskAt(p, k, m) ==
    ~\E t \in tasks : t.id = tx[p].payload[k].tasks[m]

\* the responses of a statement that returned an error
StatementFailed ==
    {"failed_to_update_section_sort", "failed_to_update_task", "transaction_commit_failed"}

\* C12 as stated: a batch reorder whose payload holds, at any position, a
\* section that does not exist or is not the caller's answers Forbidden (a
\* failing statement aside) and changes no sort_order and no section_id.
C12_ForbiddenWhereverItSits ==
    [][\A p \in Procs :
        (req[p].op = BatchOp /\ InFlight(p) /\ HasBadSection(p))
            => /\ sections' = sections /\ tasks' = tasks
               /\ req'[p].pc = "done" => req'[p].resp \in {"forbidden"} \cup StatementFailed
      ]_vars

\* C12 (amended): a batch reorder whose payload holds a section that does not
\* exist or is not the caller's never succeeds and changes no sort_order and
\* no section_id, also not of the sections and tasks listed before it; the
\* ownership check of that section answers Forbidden, and the only other
\* answers are Task not found, for a missing task listed before that section,
\* and the error of a statement that failed before it.
C12_BatchOwnershipAllOrNothing ==
    [][\A p \in Procs :
        (req[p].op = BatchOp /\ InFlight(p) /\ HasBadSection(p))
            => /\ sections' = sections /\ tasks' = tasks
               /\ req'[p].pc = "done" => req'[p].resp # "ok"
               /\ (req[p].pc = "bt_owner" /\ BadSectionAt(p, tx[p].i))
                     => req'[p].pc = "done" /\ req'[p].resp = "forbidden"
               /\ (req'[p].pc = "done" /\ req'[p].resp \notin {"forbidden"} \cup StatementFailed)
                     => /\ req'[p].resp = "task_not_found"
                        /\ req[p].pc = "bt_task"
                        /\ MissingTaskAt(p, tx[p].i, tx[p].j)
                        /\ \A k \in 1..tx[p].i : ~BadSectionAt(p, k)
      ]_vars

\* the ownership check is about to reject a section that is not the first of
\* the payload, after a section and a task listed before it were rewritten
C12_Witness ==
    /\ req[SeqProc].op = BatchOp /\ req[SeqProc].pc = "bt_owner"
    /\ tx[SeqProc].i > 1 /\ BadSectionAt(SeqProc, tx[SeqProc].i)
    /\ tx[SeqProc].wS # {} /\ tx[SeqProc].wT # {}

\* C13: when a listed task does not exist the batch answers Task not found, and
\* a batch that ends with that answer or with the error of a failed UPDATE or
\* commit leaves every sort_order and section_id as before the request; no
\* change of the request is visible before it has answered with success.
C13_BatchAtomicOnFailure ==
    [][\A p \in Procs :
        (req[p].op = BatchOp /\ InFlight(p))
            => /\ req'[p].resp # "ok" => sections' = sections /\ tasks' = tasks
               /\ (req[p].pc = "bt_task" /\ MissingTaskAt(p, tx[p].i, tx[p].j))
                     => req'[p].pc = "done" /\ req'[p].resp = "task_not_found"
               /\ req'[p].pc = "done" => tx'[p] = IdleTx
      ]_vars

\* the lookup of a task that does not exist is about to abort a batch that has
\* already rewritten a section and a task
C13_Witness ==
    /\ req[SeqProc].op = BatchOp /\ req[SeqProc].pc = "bt_task"
    /\ MissingTaskAt(SeqProc, tx[SeqProc].i, tx[SeqProc].j)
    /\ tx[SeqProc].wS # {} /\ tx[SeqProc].wT # {}
    /\ ~HasBadSection(SeqProc)
\* the positions <<k, m>> of the tasks listed in the payload pl
TaskPositions(pl) ==
    {x \in (1..Len(pl)) \X (1..MaxPayloadSize) : x[2] <= Len(pl[x[1]].tasks)}

\* pl lists each section and each task at most once
EachAtMostOnce(pl) ==
    /\ \A k, l \in 1..Len(pl) : pl[k].id = pl[l].id => k = l
    /\ \A x, y \in TaskPositions(pl) :
          pl[x[1]].tasks[x[2]] = pl[y[1]].tasks[y[2]] => x = y

\* C14: the commit of a batch reorder whose payload lists each section and each
\* task at most once leaves every listed section at sort_order = its 1-based
\* position in the payload, and every listed task in the section it is listed
\* under at sort_order = its 1-based position in that section's list.
C14_BatchPostcondition ==
    [][\A p \in Procs :
        LET pl == tx[p].payload IN
        (/\ req[p].op = BatchOp /\ req[p].pc = "bt_commit" /\ req'[p].resp = "ok"
         /\ EachAtMostOnce(pl))
            => /\ \A k \in 1..Len(pl) :
                     \E s \in sections' : s.id = pl[k].id /\ s.sort_order = k
               /\ \A x \in TaskPositions(pl) :
                     \E t \in tasks' : /\ t.id = pl[x[1]].tasks[x[2]]
                                       /\ t.section_id = pl[x[1]].id
                                       /\ t.sort_order = x[2]
      ]_vars

\* a batch has succeeded that put a user's later section first and a task at
\* the head of it
C14_Witness ==
    /\ req[SeqProc].op = BatchOp /\ req[SeqProc].pc = "done" /\ req[SeqProc].resp = "ok"
    /\ \E a, b \in sections :
          /\ a.user_id = b.user_id /\ a.id < b.id /\ b.sort_order = 1 /\ a.sort_order = 2
          /\ \E t \in TasksOf(b.id) : t.sort_order = 1

\* pl lists exactly the sections of user u and exactly the tasks stored in them
ListsAllOf(pl, u) ==
    /\ {pl[k].id : k \in 1..Len(pl)} = {s.id : s \in SectionsOf(u)}
    /\ {pl[x[1]].tasks[x[2]] : x \in TaskPositions(pl)}
          = {t.id : t \in {y \in tasks : \E s \in SectionsOf(u) : s.id = y.section_id}}

\* pl lists some task under another section than the one it is stored in
MovesATask(pl) ==
    \E x \in TaskPositions(pl) :
        \E t \in tasks : t.id = pl[x[1]].tasks[x[2]] /\ t.section_id # pl[x[1]].id

\* C15: from dense tables, the commit of a batch reorder that lists all of the
\* caller's sections and all of their tasks exactly once, some task under a
\* section it is not stored in, leaves every section's task ranks 1..count and
\* every user's section ranks 1..N.
C15_BatchKeepsDensity ==
    [][\A p \in Procs :
        LET pl == tx[p].payload IN
        (/\ req[p].op = BatchOp /\ req[p].pc = "bt_commit" /\ req'[p].resp = "ok"
         /\ \A u \in Users : DenseSections(u)
         /\ \A sid \in SectionIds : DenseTasks(sid)
         /\ EachAtMostOnce(pl) /\ ListsAllOf(pl, req[p].user) /\ MovesATask(pl))
            => /\ \A sid \in SectionIds : DenseTasksIn(tasks', sid)
               /\ \A u \in Users :
                     {s.sort_order : s \in SectionsIn(sections', u)}
                        = 1..Cardinality(SectionsIn(sections', u))
      ]_vars

\* a batch has succeeded that moved the older of two tasks out of their
\* section into a section of higher id and left the younger behind at rank 1
C15_Witness ==
    /\ req[SeqProc].op = BatchOp /\ req[SeqProc].pc = "done" /\ req[SeqProc].resp = "ok"
    /\ \E a, b \in tasks :
          /\ a.id < b.id /\ a.section_id > b.section_id
          /\ b.sort_order = 1 /\ TasksOf(b.section_id) = {b}
    /\ \A sid \in SectionIds : DenseTasks(sid)
\* p's request moves the single task tid into section dest at rank 1 and names
\* nothing else: the one request of RegisterPlanRoutes that can change the
\* section of a task, with the payload [{id: dest, tasks: [{id: tid}]}]
MovesOnly(p, tid, dest) ==
    /\ req[p].op = BatchOp
    /\ tx[p].payload = <<[id |-> dest, tasks |-> <<tid>>]>>
    /\ \E t \in tasks : t.id = tid /\ t.section_id # dest /\ SectionOwner(t) = req[p].user

\* C16: moving one task into another section of the caller at rank 1 removes
\* it from its source section and compacts the source to 1..count, and puts
\* it at rank 1 of the destination with the former members shifted down by
\* one: S1 = {A:1, B:2}, S2 = {C:1} becomes S1 = {B:1}, S2 = {A:1, C:2}.
C16_MoveTask ==
    [][\A p \in Procs : \A tid \in TaskIds, dest \in SectionIds :
        (/\ MovesOnly(p, tid, dest) /\ req[p].pc = "bt_commit" /\ req'[p].resp = "ok"
         /\ \A sid \in SectionIds : DenseTasks(sid))
            => LET src == (CHOOSE t \in tasks : t.id = tid).section_id IN
               /\ DenseTasksIn(tasks', src)
               /\ DenseTasksIn(tasks', dest)
               /\ \E t \in tasks' : t.id = tid /\ t.section_id = dest /\ t.sort_order = 1
               /\ \A o \in TasksOf(dest) :
                     \E t \in tasks' : /\ t.id = o.id /\ t.section_id = dest
                                       /\ t.sort_order = o.sort_order + 1
      ]_vars
\* C17: a DeleteSection request of a user on a section owned by another user
\* ends at its ownership check with the not-found-or-unauthorized answer: no
\* DELETE, no SET @rank and no renumbering runs, and no section, rank or task
\* changes.
C17_DeleteSectionOwnershipIsolation ==
    [][\A p \in Procs :
        (/\ ~InFlight(p) /\ req'[p] # req[p] /\ req'[p].op = "DeleteSection"
         /\ \E s \in sections : s.id = req'[p].id /\ s.user_id # req'[p].user)
            => /\ req'[p].pc = "done"
               /\ req'[p].resp = "not_found_or_unauthorized"
               /\ sections' = sections /\ tasks' = tasks /\ rank' = rank
      ]_vars

\* a DeleteSection on another user's section, which holds tasks, was turned away
C17_Witness ==
    /\ req[SeqProc].op = "DeleteSection" /\ req[SeqProc].pc = "done"
    /\ req[SeqProc].resp = "not_found_or_unauthorized"
    /\ \E s \in sections : /\ s.id = req[SeqProc].id /\ s.user_id # req[SeqProc].user
                           /\ TasksOf(s.id) # {}
    /\ SectionsOf(req[SeqProc].user) # {}

\* the sort_order values of user u's sections in S are pairwise distinct
DistinctRanks(S, u) ==
    \A a, b \in SectionsIn(S, u) : a.sort_order = b.sort_order => a.id = b.id

\* C18: a DeleteSection whose DELETE fails answers "failed to delete" and removes
\* no section and changes no rank; one whose DELETE succeeded and whose SET
\* @rank or renumbering UPDATE fails answers "deleted, but failed to reorder",
\* the section is gone and the remaining sections of the user keep the ranks
\* they had before the delete, pairwise distinct.
C18_ReorderFailedDistinctFromFailedDelete ==
    [][\A p \in Procs :
        /\ (req[p].pc = "ds_delete" /\ req'[p].pc = "done")
              => /\ req'[p].resp = "failed_to_delete_section"
                 /\ sections' = sections /\ tasks' = tasks
        /\ (req[p].pc = "ds_delete" /\ req'[p].pc = "ds_set")
              => sections' = {s \in sections : s.id # req[p].id}
        /\ (req[p].pc \in {"ds_set", "ds_update"} /\ req'[p].pc = "done"
                /\ req'[p].resp # "ok")
              => /\ req'[p].resp = "deleted_but_failed_to_reorder"
                 /\ ~\E s \in sections' : s.id = req[p].id
                 /\ sections' = sections
                 /\ DistinctRanks(sections', req[p].user)
      ]_vars

\* the renumbering failed after the delete: the user's remaining section sits
\* at rank 2 with no section at rank 1
C18_Witness ==
    /\ req[SeqProc].op = "DeleteSection" /\ req[SeqProc].pc = "done"
    /\ req[SeqProc].resp = "deleted_but_failed_to_reorder"
    /\ ~\E s \in sections : s.id = req[SeqProc].id
    /\ \E s \in SectionsOf(req[SeqProc].user) : s.sort_order = 2
    /\ ~\E s \in SectionsOf(req[SeqProc].user) : s.sort_order = 1

\* the answers of the section and task handlers
Answers ==
    {"ok", "not_found_or_unauthorized", "forbidden", "invalid_task_id", "task_not_found",
     "unauthorized_to_modify", "failed_to_delete_section", "deleted_but_failed_to_reorder",
     "failed_to_update_section", "failed_to_update_task", "invalid_input"}

\* C19: for UpdateSection and for DeleteSection, a request naming a section id
\* that does not exist and a request of the same user naming a section of
\* another user end at once with one and the same answer, and change no
\* section row.
C19_SectionExistenceNotLeaked ==
    \A p \in Procs, u \in Users, a, b \in SectionIds :
        (/\ ~\E s \in sections : s.id = a
         /\ \E s \in sections : s.id = b /\ s.user_id # u)
        => /\ \A r \in Answers :
                /\ (ENABLED (UpdateSectionExists(p, u, a) /\ req'[p].resp = r))
                      <=> (ENABLED (UpdateSectionExists(p, u, b) /\ req'[p].resp = r))
                /\ (ENABLED (DeleteSectionExists(p, u, a) /\ req'[p].resp = r))
                      <=> (ENABLED (DeleteSectionExists(p, u, b) /\ req'[p].resp = r))
           /\ \A x \in {a, b} :
                /\ ~ENABLED (UpdateSectionExists(p, u, x)
                               /\ (req'[p].pc # "done" \/ sections' # sections))
                /\ ~ENABLED (DeleteSectionExists(p, u, x)
                               /\ (req'[p].pc # "done" \/ sections' # sections))

\* an UpdateSection naming an id that no section has was turned away while a
\* section of another user exists
C19_Witness ==
    /\ req[SeqProc].op = "UpdateSection" /\ req[SeqProc].pc = "done"
    /\ req[SeqProc].resp = "not_found_or_unauthorized"
    /\ ~\E s \in sections : s.id = req[SeqProc].id
    /\ \E s \in sections : s.user_id # req[SeqProc].user

\* C20: for UpdateTask and for DeleteTask, the answer to a request naming a
\* task id that does not exist is also the answer the same user gets to a
\* request naming a task of another user.
C20_TaskExistenceNotLeaked ==
    [][\A p \in Procs : \A r \in Answers : \A b \in TaskIds :
        (/\ ~InFlight(p) /\ req'[p] # req[p] /\ req'[p].resp = r
         /\ ~\E t \in tasks : t.id = req'[p].id
         /\ \E t \in tasks : /\ t.id = b /\ t.user_id # req'[p].user
                             /\ SectionOwner(t) # req'[p].user)
            => /\ req'[p].op = "UpdateTask"
                     => \E u \in Users :
                           /\ u = req'[p].user
                           /\ ENABLED (UpdateTaskOwner(p, u, b) /\ req'[p].resp = r)
               /\ req'[p].op = "DeleteTask"
                     => \E u \in Users :
                           /\ u = req'[p].user
                           /\ ENABLED (DeleteTaskJoin(p, u, b) /\ req'[p].resp = r)
      ]_vars

C22_TaskMutationsCheckCurrentSection ==
    [][\A p \in Procs :
        (/\ InFlight(p) /\ req[p].op \in {"UpdateTask", "DeleteTask"}
         /\ (req'[p].resp = "ok" \/ tasks' # tasks))
            => \A t \in tasks : t.id = req[p].id => SectionOwner(t) = req[p].user
      ]_vars

\* C23: when an UpdateTask request succeeds, each of title, content and
\* is_completed of the task holds the value the body carries under that key
\* if the body carries the key, and the value it held before the request if
\* the body does not carry it.
C23_UpdateTaskOnlySuppliedFields ==
    [][\A p \in Procs :
        (req[p].pc = "ut_update" /\ req'[p].pc = "done" /\ req'[p].resp = "ok")
            => \A t \in tasks : t.id = req[p].id =>
                 \E n \in tasks' :
                    /\ n.id = t.id
                    /\ n.title = IF "title" \in req[p].keys
                                 THEN req[p].body.title ELSE t.title
                    /\ n.content = IF "content" \in req[p].keys
                                   THEN req[p].body.content ELSE t.content
                    /\ n.is_completed = IF "is_completed" \in req[p].keys
                                        THEN req[p].body.is_completed ELSE t.is_completed
      ]_vars

\* the id, section_id, user_id and sort_order of every task row of T
TaskPlaces(T) ==
    {[id |-> t.id, section_id |-> t.section_id, user_id |-> t.user_id,
      sort_order |-> t.sort_order] : t \in T}

\* the id, user_id and sort_order of every section row of S
SectionPlaces(S) ==
    {[id |-> s.id, user_id |-> s.user_id, sort_order |-> s.sort_order] : s \in S}

\* C24: no step of an UpdateTask request, whether the request ends in success
\* or in an error, changes the sort_order or the section_id of any task (or
\* adds or removes a task), and no step of an UpdateSection request changes
\* the sort_order or the owner of any section (or adds or removes a section).
C24_UpdatesLeaveOrderingUnchanged ==
    [][\A p \in Procs :
        (req'[p] # req[p] /\ req'[p].op \in {"UpdateTask", "UpdateSection"})
            => /\ TaskPlaces(tasks') = TaskPlaces(tasks)
               /\ SectionPlaces(sections') = SectionPlaces(sections)
      ]_vars

\* an UpdateTask has rewritten the title of a task that is not first in its
\* section, or an UpdateSection the title of a section
C24_Witness ==
    /\ req[SeqProc].pc = "done" /\ req[SeqProc].resp = "ok"
    /\ \/ /\ req[SeqProc].op = "UpdateTask"
          /\ \E t \in tasks : /\ t.id = req[SeqProc].id /\ t.title # SomeTitle
                              /\ t.sort_order > 1
       \/ /\ req[SeqProc].op = "UpdateSection"
          /\ \E s \in sections : s.id = req[SeqProc].id /\ s.title # SomeTitle

C26_CreateSectionValidation ==
    [][\A p \in Procs :
        (/\ ~InFlight(p) /\ req'[p] # req[p] /\ req'[p].op = "CreateSection"
         /\ ("title" \notin req'[p].keys \/ req'[p].body.title = ""))
            => /\ req'[p].pc = "done" /\ req'[p].resp = "invalid_input"
               /\ sections' = sections /\ tasks' = tasks
               /\ nextSectionId' = nextSectionId
      ]_vars

\* a CreateSection carrying the empty title was turned away while the caller
\* has a section
C26_Witness ==
    /\ req[SeqProc].op = "CreateSection" /\ req[SeqProc].pc = "done"
    /\ req[SeqProc].resp = "invalid_input"
    /\ "title" \in req[SeqProc].keys /\ req[SeqProc].body.title = ""
    /\ SectionsOf(req[SeqProc].user) # {}
    /\ nextSectionId <= MaxSectionId

\* the list r holds the sections of user u, each once and with the values of
\* its row, in ascending sort_order, and nothing else
ListsSectionsOf(r, u) ==
    /\ Len(r) = Cardinality(SectionsOf(u))
    /\ \A s \in SectionsOf(u) :
          \E i \in 1..Len(r) :
             r[i].id = s.id /\ r[i].sort_order = s.sort_order /\ r[i].title = s.title
    /\ \A i, j \in 1..Len(r) : i < j => r[i].sort_order <= r[j].sort_order

C28_ReferentialIntegrity ==
    \A t \in tasks : \E s \in sections : s.id = t.section_id

\* a CreateTask passed its ownership check, the section, which held tasks, was
\* deleted by a concurrent DeleteSection, and the INSERT was rejected
C28_Witness ==
    \E p, q \in Procs :
        /\ req[p].op = "CreateTask" /\ req[p].resp = "failed_to_create"
        /\ req[q].op = "DeleteSection" /\ req[q].id = req[p].section
        /\ req[q].pc \in {"ds_set", "ds_update", "done"}
        /\ nextTaskId > 1
        /\ tasks = {}

\* the id and title of every section row of S
SectionTexts(S) == {[id |-> s.id, title |-> s.title] : s \in S}

\* the id, title, content and is_completed of every task row of T
TaskTexts(T) ==
    {[id |-> t.id, title |-> t.title, content |-> t.content,
      is_completed |-> t.is_completed] : t \in T}

\* C29: no step of a batch reorder request, whether the request commits, is
\* rejected or fails, changes the title of a section or the title, content or
\* is_completed of a task, and none inserts or deletes a section or a task.
C29_BatchChangesOrderingOnly ==
    [][\A p \in Procs :
        (req'[p] # req[p] /\ req'[p].op = BatchOp)
            => /\ SectionTexts(sections') = SectionTexts(sections)
               /\ TaskTexts(tasks') = TaskTexts(tasks)
               /\ nextSectionId' = nextSectionId /\ nextTaskId' = nextTaskId
      ]_vars

\* a batch reorder has committed and left two tasks of one section in the
\* reverse of the order of their ids
C29_Witness ==
    /\ req[SeqProc].op = BatchOp /\ req[SeqProc].pc = "done" /\ req[SeqProc].resp = "ok"
    /\ \E a, b \in tasks : /\ a.section_id = b.section_id /\ a.id < b.id
                           /\ a.sort_order > b.sort_order

\* C31: when a batch reorder that lists each of the caller's sections once and
\* exactly the tasks its transaction saw, each once, commits beside a
\* CreateTask or DeleteTask that has answered with success, every section it
\* lists ends dense: the sort_order values of its tasks are 1..count.
C31_BatchBesideTaskRequestDense ==
    [][\A p \in Procs :
        LET pl == tx[p].payload IN
        (/\ req[p].pc = "bt_commit" /\ req'[p].pc = "done" /\ req'[p].resp = "ok"
         /\ EachAtMostOnce(pl)
         /\ {pl[k].id : k \in 1..Len(pl)} = {s.id : s \in SectionsOf(req[p].user)}
         /\ {pl[x[1]].tasks[x[2]] : x \in TaskPositions(pl)} = tx[p].snapT
         /\ \E q \in Procs \ {p} :
               /\ req[q].op \in {"CreateTask", "DeleteTask"}
               /\ req[q].pc = "done" /\ req[q].resp = "ok")
            => \A k \in 1..Len(pl) : DenseTasksIn(tasks', pl[k].id)
      ]_vars

\* C32: when a DeleteSection whose only concurrent requests are DeleteSections
\* of other users has run its renumbering UPDATE and answers with success, the
\* sections of its user carry the ranks 1..count, whatever pooled sessions the
\* SET @rank := 0 and the UPDATE ran on.
C32_RankResetAndRenumberSameCounter ==
    [][\A p \in Procs :
        (/\ req[p].pc = "ds_update" /\ req'[p].pc = "done" /\ req'[p].resp = "ok"
         /\ \A q \in Procs \ {p} :
               req[q].pc = "idle"
                  \/ (req[q].op = "DeleteSection" /\ req[q].user # req[p].user))
            => LET mine == {s \in sections' : s.user_id = req[p].user} IN
               {s.sort_order : s \in mine} = 1..Cardinality(mine)
      ]_vars

\* a request to a protected route passes the middleware in this step
MiddlewareRuns(p) == http[p].pc = "idle" /\ http'[p].op = "protected"

\* a handler behind the middleware acts for process p in this step
HandlerRuns(p) == req'[p] # req[p] \/ (http[p].pc = "next" /\ http'[p].pc = "done")

\* the header carries no Bearer token, a signature not made with the configured
\* secret, or a user_id claim that is not a number
Unauthenticated(h) ==
    \/ h.scheme # "Bearer"
    \/ h.token.key # jwtSecret
    \/ ~IsFloat64(h.token.user_id)

C34_LoginTokenAccepted ==
    \A p \in Procs :
        (http[p].op = "Login" /\ http[p].status = 200 /\ now < http[p].token.exp)
            => JWTAuthStatus(Bearer(http[p].token), jwtSecret, now) = 0

\* process p starts a ResetPassword request in this step
StartsResetPassword(p) == ~Busy(p) /\ http'[p] # http[p] /\ http'[p].op = "ResetPassword"

\* process p answers its ResetPassword request in this step
AnswersResetPassword(p) ==
    http[p].pc # "done" /\ http'[p].pc = "done" /\ http'[p].op = "ResetPassword"

\* C35: a ResetPassword request answers with success only once its token is
\* marked used, a used token never becomes unused again, and a request whose
\* token is used or past its expiry is answered 404 (invalid or expired) at
\* once, with the users and the reset tokens left as they are.  So after a
\* success with token T every later request with T is rejected and changes no
\* password, and so is every request with an expired token.
C35_ResetTokenSingleUseAndExpires ==
    [][/\ \A p \in Procs :
            /\ (AnswersResetPassword(p) /\ http'[p].status = 200) =>
                  \E r \in password_resets' : r.token = http'[p].reset /\ r.used
            /\ (/\ StartsResetPassword(p)
                /\ \E r \in password_resets :
                      /\ r.token = http'[p].reset
                      /\ (r.used \/ r.expires_at < now \/ r.expires_at = now))
                  => /\ http'[p].pc = "done" /\ http'[p].status = 404
                     /\ users' = users /\ password_resets' = password_resets
       /\ \A r \in password_resets :
            r.used => \E x \in password_resets' : x.token = r.token /\ x.used
      ]_vars

\* after a reset with a token has succeeded (the token is used and the password
\* is the new one), a later request with the same token and another password
\* was answered 404 and the password is still the one of the first request
C35_Witness ==
    \E p \in Procs : \E r \in password_resets :
        /\ r.used /\ r.expires_at > now
        /\ http[p].op = "ResetPassword" /\ http[p].pc = "done" /\ http[p].status = 404
        /\ http[p].reset = r.token
        /\ users[r.user_id].password_hash # UsersStart[r.user_id].password_hash
        /\ users[r.user_id].password_hash # GenerateFromPassword(http[p].password)

\* C36: of the ResetPassword requests that carry the same token, at most one
\* runs the password UPDATE: no request runs it when another request with
\* that token has run it already.
C36_OneTokenOnePasswordChange ==
    [][\A p \in Procs :
        (http[p].pc = "rp_update" /\ http'[p].pc = "rp_mark")
            => ~\E q \in Procs \ {p} :
                  /\ http[q].op = "ResetPassword" /\ http[q].reset = http[p].reset
                  /\ \/ http[q].pc = "rp_mark"
                     \/ http[q].pc = "done" /\ http[q].status = 200
      ]_vars

\* C37: a ResetPassword request that answers with an error has not run its
\* password UPDATE: the password hash and the used flag are as it found them.
C37_ErrorLeavesNoHalfReset ==
    [][\A p \in Procs :
        (AnswersResetPassword(p) /\ http'[p].status # 200)
            => /\ http[p].pc # "rp_mark"
               /\ users' = users /\ password_resets' = password_resets
      ]_vars

\* C38: main makes at most MaxRetries pings, makes none after one has
\* succeeded, serves requests only after a ping has succeeded, exits fatally
\* only after MaxRetries failed pings, and always ends up either serving or
\* exited.
C38_StartupRetryTerminates ==
    /\ [](boot.pings <= MaxRetries)
    /\ [](boot.pc = "serving" => boot.connected)
    /\ []((\E p \in Procs : req[p].pc # "idle") => boot.connected)
    /\ [](boot.pc = "fatal" => ~boot.connected /\ boot.pings = MaxRetries)
    /\ [][boot.connected => boot'.pings = boot.pings]_vars
    /\ [][boot.pc = "sleep" /\ boot.pings = MaxRetries => boot'.pc \in {"sleep", "fatal"}]_vars
    /\ <>(boot.pc \in {"serving", "fatal"})

\* the tenth ping was the first to succeed and a request has been served
C38_Witness ==
    /\ boot.pc = "serving" /\ boot.pings = MaxRetries
    /\ \E p \in Procs : req[p].pc = "done" /\ sections # {}

====
